---- MODULE Spec2Model ----
(***************************************************************************)
(* Circuit-synthesis interpreter of circom-2-arithc (src/src/process.rs).  *)
(*                                                                         *)
(* process.rs walks statements and expressions and either computes over    *)
(* u32 variables or emits signals, gates and connections into an           *)
(* ArithmeticCircuit.  The circuit (crate::circuit) and the context stack  *)
(* (crate::runtime) are used by process.rs but are not part of the source  *)
(* at hand; they are modelled here from the specification (sections 3,     *)
(* 4.1, 4.2) and are marked as such.                                       *)
(*                                                                         *)
(* The interpreter is recursive and single threaded.  Each operator below  *)
(* takes the whole interpreter state `st` and returns the state after the  *)
(* call; `st.err` carries the Result: "OK" or the error that the `?`       *)
(* operator propagated.  History fields (oplog, infixLog, callLog,         *)
(* whileLog, stmtLog, retStack) record what the calls did and are never    *)
(* read by the interpreter itself.                                         *)
(***************************************************************************)
EXTENDS Integers, Sequences, FiniteSets, TLC

\* ---------------------------------------------------------------- bounds

\* Largest right-hand bound N of the generated loops `while (i < N)`.
MaxLoopBound == 4
\* Largest size of one dimension, and largest number of dimensions, of the
\* generated array declarations.
MaxDim == 3
MaxRank == 3
\* Largest literal of the generated one-gate programs `y <== x op c`.
MaxConst == 3
\* Largest operand of the generated programs `var r = a op b`.
MaxOperand == 4

\* --------------------------------------------------------- program values

\* Width of the u32 values the interpreter computes on.
U32Bits == 32

\* A u32 is held as the integer that has the same 32 bits in two's
\* complement: v itself for v < 2^31, and v - 2^32 for v >= 2^31 (so
\* u32::MAX is -1 and 2^31 is -2^31).  Half is 2^16; Hi and Lo are the
\* upper and lower 16 bits of a value and Word puts them together.
Half == 2 ^ (U32Bits \div 2)
Hi(v) == (v \div Half) % Half
Lo(v) == v % Half
Word(hi, lo) ==
    IF hi >= Half \div 2 THEN (hi - Half) * Half + lo ELSE hi * Half + lo
U32Max == Word(Half - 1, Half - 1)

\* a < b on u32.
Below(a, b) == IF (a < 0) = (b < 0) THEN a < b ELSE b < 0

\* Option<u32>: None, Some(v).
None == <<>>
Some(v) == <<v>>

\* A literal of the source is a BigInt: a sign and the digits of the
\* magnitude in base 2^16, the lowest first, without leading zeros.
BigInt(negative, digits) == [negative |-> negative, digits |-> digits]
FromInt(v) ==
    IF v = 0 THEN BigInt(FALSE, <<>>)
    ELSE IF v < 0 THEN (IF -v < Half THEN BigInt(TRUE, <<-v>>)
                        ELSE BigInt(TRUE, <<(-v) % Half, (-v) \div Half>>))
    ELSE IF v < Half THEN BigInt(FALSE, <<v>>)
    ELSE BigInt(FALSE, <<v % Half, v \div Half>>)

\* ProgramError / RuntimeError / CircuitError kinds; "OK" is Ok(..).
OK == "OK"

\* Item names.  <<"user", s, 0>> is the item named by the string s: an
\* identifier of the source program, RETURN_VAR, or the name
\* format!("{}_{}_{}", id, RETURN_VAR, n) of a call's return item, which is
\* a string like the others.  <<"random", "", n>> is the name made by
\* declare_random_item.
UserName(s) == <<"user", s, 0>>
RandomName(n) == <<"random", "", n>>
ReturnName(id, n) == UserName(id \o "_" \o "RETURN" \o "_" \o ToString(n))
RETURN_VAR == UserName("RETURN")

\* DataAccess and SubAccess.
DataAccess(name, access) == [name |-> name, access |-> access]
SubArray(i) == [kind |-> "Array", index |-> i, name |-> ""]
SubComponent(s) == [kind |-> "Component", index |-> 0, name |-> s]

\* The empty component binding (HashMap::new()).
EmptyMap == [s \in {} |-> 0]

\* ------------------------------------------------------------------- AST

Number(v) == [kind |-> "Number", value |-> FromInt(v)]
BigNumber(digits) == [kind |-> "Number", value |-> BigInt(FALSE, digits)]
Variable(s, acc) == [kind |-> "Variable", name |-> s, access |-> acc]
InfixOp(l, op, r) == [kind |-> "InfixOp", lhe |-> l, infix_op |-> op, rhe |-> r]
Call(id, args) == [kind |-> "Call", id |-> id, args |-> args]
Unimplemented(k) == [kind |-> k]
V(s) == Variable(s, <<>>)

ArrayAccess(e) == [kind |-> "ArrayAccess", expr |-> e, name |-> ""]
ComponentAccess(s) == [kind |-> "ComponentAccess", expr |-> Number(0), name |-> s]

Declaration(xtype, s, dims) ==
    [kind |-> "Declaration", xtype |-> xtype, name |-> s, dimensions |-> dims]
Substitution(s, acc, op, rhe) ==
    [kind |-> "Substitution", var |-> s, access |-> acc, op |-> op, rhe |-> rhe]
While(cond, stmt) == [kind |-> "While", cond |-> cond, stmt |-> stmt]
IfThenElse(cond, ifc, elsec) ==
    [kind |-> "IfThenElse", cond |-> cond, if_case |-> ifc, else_case |-> elsec]
Return(value) == [kind |-> "Return", value |-> value]
Block(stmts) == [kind |-> "Block", stmts |-> stmts]
InitializationBlock(stmts) == [kind |-> "InitializationBlock", initializations |-> stmts]
Deferred(k, e) == [kind |-> k, arg |-> e]

UnimplementedExpressions ==
    {"PrefixOp", "InlineSwitchOp", "ParallelOp", "AnonymousComp", "ArrayInLine",
     "Tuple", "UniformArray"}
DeferredStatements ==
    {"MultSubstitution", "UnderscoreSubstitution", "ConstraintEquality", "LogCall",
     "Assert"}

\* ------------------------------------------------------ arithmetic circuit

\* ArithmeticCircuit::new(): no signals, gates or connections.
NewCircuit == [signals |-> <<>>, gates |-> <<>>, connections |-> <<>>]

contains_signal(ac, id) == \E i \in DOMAIN ac.signals : ac.signals[i].id = id

IsConstSignal(ac, id) ==
    \E i \in DOMAIN ac.signals : ac.signals[i].id = id /\ ac.signals[i].const

Fail(st, e) == [st EXCEPT !.err = e]

LogOp(st, op, ids) == Append(st.oplog, [op |-> op, ids |-> ids])

\* add_signal(id): DuplicateSignal if the id is registered already.
add_signal(st, id) ==
    IF contains_signal(st.ac, id)
    THEN Fail(st, "DuplicateSignal")
    ELSE [st EXCEPT !.ac.signals = Append(@, [id |-> id, const |-> FALSE]),
                    !.oplog = LogOp(st, "add_signal", <<id>>)]

\* add_const(value): the constant's id is its value; registering twice is a no-op.
add_const(st, value) ==
    IF contains_signal(st.ac, value)
    THEN [st EXCEPT !.oplog = LogOp(st, "add_const", <<value>>)]
    ELSE [st EXCEPT !.ac.signals = Append(@, [id |-> value, const |-> TRUE]),
                    !.oplog = LogOp(st, "add_const", <<value>>)]

\* add_gate(type, lhs, rhs, out): UnknownSignal unless all three are registered.
add_gate(st, gate_type, lhs, rhs, out) ==
    IF \E id \in {lhs, rhs, out} : ~contains_signal(st.ac, id)
    THEN Fail(st, "UnknownSignal")
    ELSE [st EXCEPT !.ac.gates =
                        Append(@, [type |-> gate_type, lhs |-> lhs, rhs |-> rhs,
                                   out |-> out]),
                    !.oplog = LogOp(st, "add_gate", <<lhs, rhs, out>>)]

\* add_connection(src, dst): the same well-formedness check.
add_connection(st, src, dst) ==
    IF \E id \in {src, dst} : ~contains_signal(st.ac, id)
    THEN Fail(st, "UnknownSignal")
    ELSE [st EXCEPT !.ac.connections = Append(@, [src |-> src, dst |-> dst]),
                    !.oplog = LogOp(st, "add_connection", <<src, dst>>)]

\* ------------------------------------------------------------ sequencing

\* K applied to the value of an expression, which is evaluated once: the
\* Rust `let v = value; K(v)`.
Do(value, K(_)) == CHOOSE result \in {K(v) : v \in {value}} : TRUE

Result(e, v) == [err |-> e, val |-> v]
Ret(st, val) == [st |-> st, val |-> val]
NoAccess == DataAccess(UserName(""), <<>>)

\* A function of process.rs that changes the circuit or the runtime returns
\* the state after it, st, or, when it also returns a value, Ret(st, val);
\* a getter of the context returns Result(err, val).  The `?` operator:
\* Then/ThenRet continue after a call that returns the state, With/WithSt
\* after a call that returns Ret(st, val), Get/GetRet after a getter; Then,
\* WithSt and Get are used inside a function that returns the state, the
\* others inside one that returns Ret(st, val).
Then(st1, K(_)) == Do(st1, LAMBDA s : IF s.err # OK THEN s ELSE K(s))
ThenRet(st1, K(_)) == Do(st1, LAMBDA s : IF s.err # OK THEN Ret(s, NoAccess) ELSE K(s))
With(r, K(_)) == Do(r, LAMBDA v : IF v.st.err # OK THEN Ret(v.st, NoAccess) ELSE K(v))
WithSt(r, K(_)) == Do(r, LAMBDA v : IF v.st.err # OK THEN v.st ELSE K(v))
Get(st, r, K(_)) == Do(r, LAMBDA v : IF v.err # OK THEN Fail(st, v.err) ELSE K(v.val))
GetRet(st, r, K(_)) ==
    Do(r, LAMBDA v : IF v.err # OK THEN Ret(Fail(st, v.err), NoAccess) ELSE K(v.val))

\* Option::ok_or(ProgramError::EmptyDataItem)
OkOrEmpty(r) ==
    Do(r, LAMBDA v : IF v.err # OK THEN Result(v.err, 0)
                     ELSE IF v.val = None THEN Result("EmptyDataItem", 0)
                     ELSE Result(OK, v.val[1]))

\* ------------------------------------------------- context / scope stack

\* A frame: `inherit` tells a block frame (lookups fall through to the
\* frame below) from a call frame (lookups stop here); `items` maps the
\* names declared in the frame to their items.  An item is
\* [type, dims, vals]: vals holds the leaves in row-major order, a value or
\* None for a Variable, the pre-allocated id for a Signal, the bound signal
\* map for a Component.
NewFrame(inherit) == [inherit |-> inherit, items |-> [n \in {} |-> 0]]

\* Runtime::new(): one root frame.
NewRuntime == <<NewFrame(FALSE)>>

RECURSIVE Product(_)
Product(dims) == IF dims = <<>> THEN 1 ELSE Head(dims) * Product(Tail(dims))

\* Row-major position (0-based) of `indices` in an array of shape `dims`,
\* over the first k dimensions.
RECURSIVE FlatIndex(_, _, _)
FlatIndex(indices, dims, k) ==
    IF k = 0 THEN 0 ELSE FlatIndex(indices, dims, k - 1) * dims[k] + indices[k]

\* The frame that a lookup of `name` from frame k resolves to, 0 if none:
\* the nearest frame declaring the name, not looking below a call frame.
RECURSIVE FindFrame(_, _, _)
FindFrame(stack, name, k) ==
    IF k = 0 THEN 0
    ELSE IF name \in DOMAIN stack[k].items THEN k
    ELSE IF stack[k].inherit THEN FindFrame(stack, name, k - 1)
    ELSE 0

\* current_context(): the top frame.
current_context(st) == Len(st.stack)

\* The item a name resolves to and the frame that holds it.
GetItem(st, name) ==
    Do(FindFrame(st.stack, name, current_context(st)), LAMBDA k :
       IF k = 0 THEN [err |-> "ItemNotDeclared", frame |-> 0, item |-> 0]
       ELSE [err |-> OK, frame |-> k, item |-> st.stack[k].items[name]])

\* The leaf (1-based position in vals) that array subaccesses address.
LeafOf(dims, subs) ==
    IF \E i \in DOMAIN subs : subs[i].kind # "Array" THEN Result("InvalidAccess", 0)
    ELSE IF Len(subs) # Len(dims) THEN Result("InvalidAccess", 0)
    ELSE IF \E i \in DOMAIN subs : ~Below(subs[i].index, dims[i])
         THEN Result("OutOfBounds", 0)
    ELSE Result(OK, FlatIndex([i \in DOMAIN subs |-> subs[i].index], dims, Len(dims)) + 1)

\* The leaf of the item of type `type` that an access addresses:
\* [err, frame, item, leaf].
Resolve(st, access, type, mismatch) ==
    Do(GetItem(st, access.name), LAMBDA r :
       IF r.err # OK THEN [err |-> r.err, frame |-> 0, item |-> 0, leaf |-> 0]
       ELSE IF r.item.type # type
            THEN [err |-> mismatch, frame |-> 0, item |-> 0, leaf |-> 0]
       ELSE Do(LeafOf(r.item.dims, access.access), LAMBDA l :
               [err |-> l.err, frame |-> r.frame, item |-> r.item, leaf |-> l.val]))

\* get_item_data_type(name)
get_item_data_type(st, name) ==
    Do(GetItem(st, name), LAMBDA r :
       IF r.err # OK THEN Result(r.err, "") ELSE Result(OK, r.item.type))

\* The leaves of a new item: Variable leaves are None, Signal leaves get
\* fresh ids in row-major order, Component leaves are empty bindings.
NewItem(type, dims, first_id) ==
    [type |-> type, dims |-> dims,
     vals |-> CASE type = "Variable" -> [i \in 1..Product(dims) |-> None]
                [] type = "Signal" -> [i \in 1..Product(dims) |-> first_id + i - 1]
                [] OTHER -> [i \in 1..Product(dims) |-> EmptyMap]]

\* declare_item(type, name, dims): AlreadyDeclared if the frame has the name.
declare_item(st, type, name, dims) ==
    IF name \in DOMAIN st.stack[current_context(st)].items
    THEN Fail(st, "AlreadyDeclared")
    ELSE [st EXCEPT !.stack[current_context(st)].items =
                        (name :> NewItem(type, dims, st.next_signal_id)) @@ @,
                    !.next_signal_id = IF type = "Signal" THEN @ + Product(dims) ELSE @]

\* declare_random_item(type): a scalar item under a synthetic unique name;
\* returns its access.
declare_random_item(st, type) ==
    Ret(declare_item([st EXCEPT !.counter = @ + 1], type, RandomName(st.counter), <<>>),
        DataAccess(RandomName(st.counter), <<>>))

\* get_variable_value(access) -> Option<u32>
get_variable_value(st, access) ==
    Do(Resolve(st, access, "Variable", "NotAVariable"), LAMBDA r :
       IF r.err # OK THEN Result(r.err, None) ELSE Result(OK, r.item.vals[r.leaf]))

\* set_variable(access, Option<u32>): writes the nearest frame declaring it.
set_variable(st, access, value) ==
    Do(Resolve(st, access, "Variable", "NotAVariable"), LAMBDA r :
       IF r.err # OK THEN Fail(st, r.err)
       ELSE [st EXCEPT !.stack[r.frame].items[access.name].vals[r.leaf] = value])

\* get_signal_id(access) -> u32
get_signal_id(st, access) ==
    Do(Resolve(st, access, "Signal", "NotASignal"), LAMBDA r :
       IF r.err # OK THEN Result(r.err, 0) ELSE Result(OK, r.item.vals[r.leaf]))

\* get_signal(name) -> Signal: the record (shape and ids) of a signal item.
get_signal(st, name) ==
    Do(GetItem(st, name), LAMBDA r :
       IF r.err # OK THEN Result(r.err, 0)
       ELSE IF r.item.type # "Signal" THEN Result("NotASignal", 0)
       ELSE Result(OK, [dims |-> r.item.dims, ids |-> r.item.vals]))

\* get_component_map(access) -> HashMap<String, Signal>
get_component_map(st, access) ==
    Do(Resolve(st, access, "Component", "NotAComponent"), LAMBDA r :
       IF r.err # OK THEN Result(r.err, EmptyMap) ELSE Result(OK, r.item.vals[r.leaf]))

\* set_component(access, map)
set_component(st, access, map) ==
    Do(Resolve(st, access, "Component", "NotAComponent"), LAMBDA r :
       IF r.err # OK THEN Fail(st, r.err)
       ELSE [st EXCEPT !.stack[r.frame].items[access.name].vals[r.leaf] = map])

\* The id that the subaccesses sig[j..] address in a component binding.
BoundSignalId(map, subs) ==
    IF subs = <<>> \/ subs[1].kind # "Component" THEN Result("InvalidAccess", 0)
    ELSE IF subs[1].name \notin DOMAIN map THEN Result("ItemNotDeclared", 0)
    ELSE Do(LeafOf(map[subs[1].name].dims, Tail(subs)), LAMBDA l :
            IF l.err # OK THEN Result(l.err, 0)
            ELSE Result(OK, map[subs[1].name].ids[l.val]))

\* get_component_signal_id(access): for comp[i..].sig[j..], the id stored in
\* the binding of the component leaf.
get_component_signal_id(st, access) ==
    Do(GetItem(st, access.name), LAMBDA r :
       IF r.err # OK THEN Result(r.err, 0)
       ELSE IF r.item.type # "Component" THEN Result("NotAComponent", 0)
       ELSE IF Len(access.access) < Len(r.item.dims) THEN Result("InvalidAccess", 0)
       ELSE Do(LeafOf(r.item.dims, SubSeq(access.access, 1, Len(r.item.dims))), LAMBDA l :
               IF l.err # OK THEN Result(l.err, 0)
               ELSE BoundSignalId(r.item.vals[l.val],
                                  SubSeq(access.access, Len(r.item.dims) + 1,
                                         Len(access.access)))))

\* push_context(inherit)
push_context(st, inherit) == [st EXCEPT !.stack = Append(@, NewFrame(inherit))]

\* pop_context(merge): the frame and its items vanish; writes made through it
\* to the frames below were made in place.
pop_context(st, merge) ==
    IF Len(st.stack) <= 1 THEN Fail(st, "EmptyContextStack")
    ELSE [st EXCEPT !.stack = SubSeq(@, 1, Len(@) - 1)]

\* u32_to_access(indices)
u32_to_access(indices) == [i \in DOMAIN indices |-> SubArray(indices[i])]

\* increment_indices(indices, dimensions): the next index vector, the last
\* dimension varying fastest; [more, indices], more = FALSE after the last.
RECURSIVE IncrementFrom(_, _, _)
IncrementFrom(indices, dimensions, i) ==
    IF i = 0 THEN [more |-> FALSE, indices |-> indices]
    ELSE IF indices[i] + 1 < dimensions[i]
         THEN [more |-> TRUE, indices |-> [indices EXCEPT ![i] = @ + 1]]
         ELSE IncrementFrom([indices EXCEPT ![i] = 0], dimensions, i - 1)

increment_indices(indices, dimensions) ==
    IncrementFrom(indices, dimensions, Len(indices))

\* ------------------------------------------------------------ execute_op

Opcodes ==
    {"Mul", "Div", "Add", "Sub", "Pow", "IntDiv", "Mod", "ShiftL", "ShiftR",
     "LesserEq", "GreaterEq", "Lesser", "Greater", "Eq", "NotEq", "BoolOr",
     "BoolAnd", "BitOr", "BitAnd", "BitXor"}

\* AGateType::from(op)
AGateType(op) ==
    CASE op = "Lesser" -> "Lt"
      [] op = "LesserEq" -> "Le"
      [] op = "Greater" -> "Gt"
      [] op = "GreaterEq" -> "Ge"
      [] OTHER -> op

\* The build of the program: with overflow checks ("debug") an arithmetic
\* overflow panics, without them ("release") the result wraps modulo 2^32
\* and a shift uses the low five bits of its amount.
VARIABLE build

\* The outcome of an operation that computed val, having overflowed or not.
Wrapped(val, overflow) == [val |-> val, overflow |-> overflow]
Checked(r) ==
    IF r.overflow /\ build = "debug" THEN Result("Panic", 0) ELSE Result(OK, r.val)

\* lhs + rhs and lhs - rhs on u32, digit by digit.
AddU32(lhs, rhs) ==
    Do(Lo(lhs) + Lo(rhs), LAMBDA l :
    Do(Hi(lhs) + Hi(rhs) + l \div Half, LAMBDA h :
       Wrapped(Word(h % Half, l % Half), h >= Half)))

SubU32(lhs, rhs) ==
    Do(Lo(lhs) - Lo(rhs), LAMBDA l :
    Do(Hi(lhs) - Hi(rhs) + l \div Half, LAMBDA h :
       Wrapped(Word(h % Half, l % Half), h < 0)))

\* The product of two digits, as [hi, lo] digits.
DigitProduct(x, y) ==
    Do(x * (y \div 256), LAMBDA p1 :
    Do((p1 % 256) * 256 + x * (y % 256), LAMBDA t :
       [hi |-> p1 \div 256 + t \div Half, lo |-> t % Half]))

\* lhs * rhs on u32.
MulU32(lhs, rhs) ==
    Do(DigitProduct(Lo(lhs), Lo(rhs)), LAMBDA ll :
    Do(DigitProduct(Lo(lhs), Hi(rhs)), LAMBDA lh :
    Do(DigitProduct(Hi(lhs), Lo(rhs)), LAMBDA hl :
    Do(ll.hi + lh.lo + hl.lo, LAMBDA t :
       Wrapped(Word(t % Half, ll.lo),
               \/ t \div Half + lh.hi + hl.hi > 0
               \/ Hi(lhs) # 0 /\ Hi(rhs) # 0)))))

\* lhs << n on u32 for n < 32: the bits shifted out are dropped.
ShiftLeft(lhs, n) ==
    IF n >= U32Bits \div 2
    THEN Word((Lo(lhs) * 2 ^ (n - U32Bits \div 2)) % Half, 0)
    ELSE Do(Lo(lhs) * 2 ^ n, LAMBDA l :
            Word((Hi(lhs) * 2 ^ n + l \div Half) % Half, l % Half))

\* lhs >> n on u32 for n < 32.
ShiftRight(lhs, n) ==
    IF n >= U32Bits \div 2
    THEN Word(0, Hi(lhs) \div 2 ^ (n - U32Bits \div 2))
    ELSE Word(Hi(lhs) \div 2 ^ n,
              Lo(lhs) \div 2 ^ n + (Hi(lhs) % 2 ^ n) * 2 ^ (U32Bits \div 2 - n))

\* lhs / rhs and lhs % rhs on u32, rhs # 0: [quot, rem].
DivRem(lhs, rhs) ==
    IF lhs >= 0 /\ rhs > 0 THEN [quot |-> lhs \div rhs, rem |-> lhs % rhs]
    ELSE IF rhs < 0
    THEN (IF Below(lhs, rhs) THEN [quot |-> 0, rem |-> lhs]
          ELSE [quot |-> 1, rem |-> SubU32(lhs, rhs).val])
    ELSE Do(AddU32(ShiftRight(lhs, 1) \div rhs, ShiftRight(lhs, 1) \div rhs).val, LAMBDA q :
         Do(SubU32(lhs, MulU32(q, rhs).val).val, LAMBDA r :
            IF Below(r, rhs) THEN [quot |-> q, rem |-> r]
            ELSE [quot |-> AddU32(q, 1).val, rem |-> SubU32(r, rhs).val]))

\* Variant of Remainder that gives the quotient.
RemainderAsQuotient(lhs, rhs) == DivRem(lhs, rhs).quot

\* lhs % rhs on u32, rhs # 0.
Remainder(lhs, rhs) == DivRem(lhs, rhs).rem

\* One turn of the loop of u32::pow, on [base, acc, exp, overflow]:
\*   while exp > 1 { if exp & 1 == 1 { acc = acc * base }
\*                   exp /= 2; base = base * base }
PowStep(s) ==
    IF ~Below(1, s.exp) THEN s
    ELSE Do(IF Lo(s.exp) % 2 = 1 THEN MulU32(s.acc, s.base)
            ELSE Wrapped(s.acc, FALSE), LAMBDA acc :
         Do(MulU32(s.base, s.base), LAMBDA base :
            [base |-> base.val, acc |-> acc.val, exp |-> ShiftRight(s.exp, 1),
             overflow |-> s.overflow \/ acc.overflow \/ base.overflow]))

\* The loop of u32::pow, which ends within n turns.
RECURSIVE PowLoop(_, _)
PowLoop(s, n) ==
    IF n = 1 THEN PowStep(s)
    ELSE Do(PowLoop(s, n \div 2), LAMBDA m : PowLoop(m, n - n \div 2))

\* Variant of Pow in which a zero base gives zero whatever the exponent is.
PowBaseFirst(lhs, rhs) ==
    IF lhs = 0 THEN Wrapped(0, FALSE)
    ELSE IF rhs = 0 THEN Wrapped(1, FALSE)
    ELSE Do(PowLoop([base |-> lhs, acc |-> 1, exp |-> rhs, overflow |-> FALSE],
                    U32Bits), LAMBDA s :
         Do(MulU32(s.acc, s.base), LAMBDA r :
            Wrapped(r.val, s.overflow \/ r.overflow)))

\* u32::pow by repeated squaring:
\*   if exp == 0 { return 1 }
\*   let mut base = self; let mut acc = 1;
\*   while exp > 1 { ... }
\*   acc * base
Pow(lhs, rhs) ==
    IF rhs = 0 THEN Wrapped(1, FALSE)
    ELSE Do(PowLoop([base |-> lhs, acc |-> 1, exp |-> rhs, overflow |-> FALSE],
                    U32Bits), LAMBDA s :
         Do(MulU32(s.acc, s.base), LAMBDA r :
            Wrapped(r.val, s.overflow \/ r.overflow)))

\* a | b, a & b and a ^ b on digits.
RECURSIVE BitOrOf(_, _)
BitOrOf(a, b) ==
    IF a = 0 THEN b ELSE IF b = 0 THEN a
    ELSE (IF a % 2 = 1 \/ b % 2 = 1 THEN 1 ELSE 0) + 2 * BitOrOf(a \div 2, b \div 2)

RECURSIVE BitAndOf(_, _)
BitAndOf(a, b) ==
    IF a = 0 \/ b = 0 THEN 0
    ELSE (IF a % 2 = 1 /\ b % 2 = 1 THEN 1 ELSE 0) + 2 * BitAndOf(a \div 2, b \div 2)

RECURSIVE BitXorOf(_, _)
BitXorOf(a, b) ==
    IF a = 0 THEN b ELSE IF b = 0 THEN a
    ELSE (IF a % 2 # b % 2 THEN 1 ELSE 0) + 2 * BitXorOf(a \div 2, b \div 2)

\* The amount of a shift by rhs: rhs >= 32 overflows, and the shift is then
\* by the low five bits of rhs.
ShiftAmount(rhs) == Wrapped(Lo(rhs) % U32Bits, ~Below(rhs, U32Bits))

\* execute_op(lhs, rhs, op) -> Result<u32, ProgramError>
execute_op(lhs, rhs, op) ==
    CASE op = "Mul" -> Checked(MulU32(lhs, rhs))
      [] op = "Div" ->
           IF rhs = 0 THEN Result("OperationError", 0)
           ELSE Result(OK, DivRem(lhs, rhs).quot)
      [] op = "Add" -> Checked(AddU32(lhs, rhs))
      [] op = "Sub" -> Checked(SubU32(lhs, rhs))
      [] op = "Pow" -> Checked(Pow(lhs, rhs))
      [] op = "IntDiv" ->
           IF rhs = 0 THEN Result("OperationError", 0)
           ELSE Result(OK, DivRem(lhs, rhs).quot)
      [] op = "Mod" ->
           IF rhs = 0 THEN Result("OperationError", 0)
           ELSE Result(OK, Remainder(lhs, rhs))
      [] op = "ShiftL" ->
           Do(ShiftAmount(rhs), LAMBDA n :
              Checked(Wrapped(ShiftLeft(lhs, n.val), n.overflow)))
      [] op = "ShiftR" ->
           Do(ShiftAmount(rhs), LAMBDA n :
              Checked(Wrapped(ShiftRight(lhs, n.val), n.overflow)))
      [] op = "LesserEq" -> Result(OK, IF ~Below(rhs, lhs) THEN 1 ELSE 0)
      [] op = "GreaterEq" -> Result(OK, IF ~Below(lhs, rhs) THEN 1 ELSE 0)
      [] op = "Lesser" -> Result(OK, IF Below(lhs, rhs) THEN 1 ELSE 0)
      [] op = "Greater" -> Result(OK, IF Below(rhs, lhs) THEN 1 ELSE 0)
      [] op = "Eq" -> Result(OK, IF lhs = rhs THEN 1 ELSE 0)
      [] op = "NotEq" -> Result(OK, IF lhs # rhs THEN 1 ELSE 0)
      [] op = "BoolOr" -> Result(OK, IF lhs # 0 \/ rhs # 0 THEN 1 ELSE 0)
      [] op = "BoolAnd" -> Result(OK, IF lhs # 0 /\ rhs # 0 THEN 1 ELSE 0)
      [] op = "BitOr" ->
           Result(OK, Word(BitOrOf(Hi(lhs), Hi(rhs)), BitOrOf(Lo(lhs), Lo(rhs))))
      [] op = "BitAnd" ->
           Result(OK, Word(BitAndOf(Hi(lhs), Hi(rhs)), BitAndOf(Lo(lhs), Lo(rhs))))
      [] op = "BitXor" ->
           Result(OK, Word(BitXorOf(Hi(lhs), Hi(rhs)), BitXorOf(Lo(lhs), Lo(rhs))))

\* ------------------------------------------------------- program archive

\* The function and template definitions the programs below call.  A
\* template's inputs and outputs are the input and output signals its body
\* declares (get_inputs / get_outputs).
FunctionIds == {"f", "g", "h", "k", "p", "q"}
TemplateIds == {"Mul", "Inc", "Pair"}

Archive ==
    [id \in FunctionIds \cup TemplateIds |->
       CASE id = "f" ->    \* function f(n) { return n*n + 1; }
              [params |-> <<"n">>, inputs |-> <<>>, outputs |-> <<>>,
               body |-> <<Return(InfixOp(InfixOp(V("n"), "Mul", V("n")), "Add",
                                         Number(1)))>>]
         [] id = "g" ->    \* function g(n) { if (n) { return 5; } }
              [params |-> <<"n">>, inputs |-> <<>>, outputs |-> <<>>,
               body |-> <<IfThenElse(V("n"), Return(Number(5)), <<>>)>>]
         [] id = "h" ->    \* function h(n) { var t = n; if (n) a = 7; }
              [params |-> <<"n">>, inputs |-> <<>>, outputs |-> <<>>,
               body |-> <<Declaration("Var", "t", <<>>),
                          Substitution("t", <<>>, "AssignVar", V("n")),
                          IfThenElse(V("n"),
                                     Substitution("a", <<>>, "AssignVar", Number(7)),
                                     <<>>)>>]
         [] id = "k" ->    \* function k(n) { var a = n + 1; return f(a); }
              [params |-> <<"n">>, inputs |-> <<>>, outputs |-> <<>>,
               body |-> <<Declaration("Var", "a", <<>>),
                          Substitution("a", <<>>, "AssignVar",
                                       InfixOp(V("n"), "Add", Number(1))),
                          Return(Call("f", <<V("a")>>))>>]
         [] id = "p" ->    \* function p(n) { return n; var t = n + 1; return t; }
              [params |-> <<"n">>, inputs |-> <<>>, outputs |-> <<>>,
               body |-> <<Return(V("n")),
                          Declaration("Var", "t", <<>>),
                          Substitution("t", <<>>, "AssignVar",
                                       InfixOp(V("n"), "Add", Number(1))),
                          Return(V("t"))>>]
         [] id = "q" ->    \* function q(n) { return n; n = n + 1; }
              [params |-> <<"n">>, inputs |-> <<>>, outputs |-> <<>>,
               body |-> <<Return(V("n")),
                          Substitution("n", <<>>, "AssignVar",
                                       InfixOp(V("n"), "Add", Number(1)))>>]
         [] id = "Mul" ->  \* template Mul() { signal input a, b; signal output c;
                           \*                  c <== a*b; }
              [params |-> <<>>, inputs |-> <<"a", "b">>, outputs |-> <<"c">>,
               body |-> <<Declaration("SignalInput", "a", <<>>),
                          Declaration("SignalInput", "b", <<>>),
                          Declaration("SignalOutput", "c", <<>>),
                          Substitution("c", <<>>, "AssignConstraintSignal",
                                       InfixOp(V("a"), "Mul", V("b")))>>]
         [] id = "Inc" ->  \* template Inc(n) { signal input a; signal output c;
                           \*                   c <== a + n; }
              [params |-> <<"n">>, inputs |-> <<"a">>, outputs |-> <<"c">>,
               body |-> <<Declaration("SignalInput", "a", <<>>),
                          Declaration("SignalOutput", "c", <<>>),
                          Substitution("c", <<>>, "AssignConstraintSignal",
                                       InfixOp(V("a"), "Add", V("n")))>>]
         [] OTHER ->       \* template Pair() { signal input a[2]; signal t;
                           \*                   signal output c; c <== a[0] - a[1]; }
              [params |-> <<>>, inputs |-> <<"a">>, outputs |-> <<"c">>,
               body |-> <<Declaration("SignalInput", "a", <<Number(2)>>),
                          Declaration("SignalIntermediate", "t", <<>>),
                          Declaration("SignalOutput", "c", <<>>),
                          Substitution("c", <<>>, "AssignConstraintSignal",
                              InfixOp(Variable("a", <<ArrayAccess(Number(0))>>), "Sub",
                                      Variable("a", <<ArrayAccess(Number(1))>>)))>>]]

contains_function(id) == id \in FunctionIds
contains_template(id) == id \in TemplateIds

\* ----------------------------------------------------------- interpreter

\* DataType::try_from(xtype): the signal, variable and component types of
\* a declaration; any other type is rejected.
DataTypeOf(xtype) ==
    CASE xtype = "Var" -> Result(OK, "Variable")
      [] xtype = "Component" -> Result(OK, "Component")
      [] xtype \in {"SignalInput", "SignalOutput", "SignalIntermediate"} ->
           Result(OK, "Signal")
      [] OTHER -> Result("UnsupportedDataType", "")

\* BigInt::to_u32(): None for a negative literal and for one above
\* u32::MAX.
to_u32(value) ==
    IF value.negative \/ Len(value.digits) > 2 THEN None
    ELSE IF value.digits = <<>> THEN Some(0)
    ELSE IF Len(value.digits) = 1 THEN Some(value.digits[1])
    ELSE Some(Word(value.digits[2], value.digits[1]))

\* The circuit and the frames, as recorded in the history.
Snap(st) == [ac |-> st.ac, stack |-> st.stack]

\* The state without its history, as recorded in the history.
Core(st) ==
    [st EXCEPT !.oplog = <<>>, !.infixLog = <<>>, !.callLog = <<>>,
               !.whileLog = <<>>, !.stmtLog = <<>>]

\* process_statement, process_statements and process_expression call one
\* another; a call of one of them from inside another function is written
\* Invoke(st, "<function>", argument), defined after them.
RECURSIVE Invoke(_, _, _)

\* get_signal_for_access(ac, ctx, access) -> u32
get_signal_for_access(st, access) ==
    GetRet(st, get_item_data_type(st, access.name), LAMBDA data_type :
    IF data_type = "Signal"
    THEN GetRet(st, get_signal_id(st, access), LAMBDA id : Ret(st, id))
    ELSE IF data_type = "Variable"
    THEN GetRet(st, OkOrEmpty(get_variable_value(st, access)), LAMBDA value :
         ThenRet(add_const(st, value), LAMBDA st1 : Ret(st1, value)))
    ELSE GetRet(st, get_component_signal_id(st, access), LAMBDA id : Ret(st, id)))

\* build_access, lines 483-497: the loop over access[i..], access_vec holding
\* the subaccesses built so far.
RECURSIVE BuildAccessFrom(_, _, _, _)
BuildAccessFrom(st, access, i, access_vec) ==
    IF i > Len(access) THEN Ret(st, access_vec)
    ELSE IF access[i].kind = "ArrayAccess"
    THEN With(Invoke(st, "process_expression", access[i].expr), LAMBDA index_access :
         GetRet(index_access.st,
                OkOrEmpty(get_variable_value(index_access.st, index_access.val)),
                LAMBDA index :
         BuildAccessFrom(index_access.st, access, i + 1,
                         Append(access_vec, SubArray(index)))))
    ELSE BuildAccessFrom(st, access, i + 1,
                         Append(access_vec, SubComponent(access[i].name)))

\* build_access(ac, runtime, program_archive, name, access) -> DataAccess
build_access(st, name, access) ==
    With(BuildAccessFrom(st, access, 1, <<>>), LAMBDA r :
    Ret(r.st, DataAccess(UserName(name), r.val)))

\* Variant of InfixOnVariables that declares the result item before the
\* operation is executed.
InfixOnVariablesDeclaringFirst(st, op, lhe_access, rhe_access) ==
    GetRet(st, OkOrEmpty(get_variable_value(st, lhe_access)), LAMBDA lhs_value :
    GetRet(st, OkOrEmpty(get_variable_value(st, rhe_access)), LAMBDA rhs_value :
    With(declare_random_item(st, "Variable"), LAMBDA item_access :
    GetRet(item_access.st, execute_op(lhs_value, rhs_value, op), LAMBDA op_res :
    ThenRet(set_variable(item_access.st, item_access.val, Some(op_res)), LAMBDA st1 :
    Ret(st1, item_access.val))))))

\* handle_infix_op, lines 420-434: both operands are variables.
InfixOnVariables(st, op, lhe_access, rhe_access) ==
    GetRet(st, OkOrEmpty(get_variable_value(st, lhe_access)), LAMBDA lhs_value :
    GetRet(st, OkOrEmpty(get_variable_value(st, rhe_access)), LAMBDA rhs_value :
    GetRet(st, execute_op(lhs_value, rhs_value, op), LAMBDA op_res :
    With(declare_random_item(st, "Variable"), LAMBDA item_access :
    ThenRet(set_variable(item_access.st, item_access.val, Some(op_res)), LAMBDA st1 :
    Ret(st1, item_access.val))))))

\* Variant of InfixOnSignals that does not register the output signal.
InfixOnSignalsUnregistered(st, op, lhe_access, rhe_access) ==
    With(get_signal_for_access(st, lhe_access), LAMBDA lhs_id :
    With(get_signal_for_access(lhs_id.st, rhe_access), LAMBDA rhs_id :
    With(declare_random_item(rhs_id.st, "Signal"), LAMBDA output_signal :
    GetRet(output_signal.st, get_signal_id(output_signal.st, output_signal.val),
           LAMBDA output_id :
    ThenRet(add_gate(output_signal.st, AGateType(op), lhs_id.val, rhs_id.val,
                     output_id), LAMBDA st2 :
    Ret(st2, output_signal.val))))))

\* Variant of InfixOnSignals that passes the operands to the gate in the
\* opposite order.
InfixOnSignalsSwapped(st, op, lhe_access, rhe_access) ==
    With(get_signal_for_access(st, lhe_access), LAMBDA lhs_id :
    With(get_signal_for_access(lhs_id.st, rhe_access), LAMBDA rhs_id :
    With(declare_random_item(rhs_id.st, "Signal"), LAMBDA output_signal :
    GetRet(output_signal.st, get_signal_id(output_signal.st, output_signal.val),
           LAMBDA output_id :
    ThenRet(add_signal(output_signal.st, output_id), LAMBDA st1 :
    ThenRet(add_gate(st1, AGateType(op), rhs_id.val, lhs_id.val, output_id),
            LAMBDA st2 :
    Ret(st2, output_signal.val)))))))

\* handle_infix_op, lines 436-449: at least one operand is a signal or a
\* component; the gate is constructed.
InfixOnSignals(st, op, lhe_access, rhe_access) ==
    With(get_signal_for_access(st, lhe_access), LAMBDA lhs_id :
    With(get_signal_for_access(lhs_id.st, rhe_access), LAMBDA rhs_id :
    With(declare_random_item(rhs_id.st, "Signal"), LAMBDA output_signal :
    GetRet(output_signal.st, get_signal_id(output_signal.st, output_signal.val),
           LAMBDA output_id :
    ThenRet(add_signal(output_signal.st, output_id), LAMBDA st1 :
    ThenRet(add_gate(st1, AGateType(op), lhs_id.val, rhs_id.val, output_id),
            LAMBDA st2 :
    Ret(st2, output_signal.val)))))))

\* Variant of InfixDispatch that constructs a gate whatever the operands are.
InfixDispatchGateOnly(st, op, lhe_access, rhe_access) ==
    InfixOnSignals(st, op, lhe_access, rhe_access)

\* handle_infix_op, lines 414-449: the dispatch on the operand types, after
\* both operands were evaluated.
InfixDispatch(st, op, lhe_access, rhe_access) ==
    GetRet(st, get_item_data_type(st, lhe_access.name), LAMBDA lhs_data_type :
    GetRet(st, get_item_data_type(st, rhe_access.name), LAMBDA rhs_data_type :
    IF lhs_data_type = "Variable" /\ rhs_data_type = "Variable"
    THEN InfixOnVariables(st, op, lhe_access, rhe_access)
    ELSE InfixOnSignals(st, op, lhe_access, rhe_access)))

\* handle_infix_op.  Every call that returns Ok is recorded in infixLog: the
\* operation, its operand expressions and accesses, and the circuit and
\* frames at entry (pre), after the operands were evaluated (mid) and at
\* return (post).
handle_infix_op(st, op, lhe, rhe) ==
    With(Invoke(st, "process_expression", lhe), LAMBDA lhe_access :
    With(Invoke(lhe_access.st, "process_expression", rhe), LAMBDA rhe_access :
    With(InfixDispatch(rhe_access.st, op, lhe_access.val, rhe_access.val), LAMBDA res :
    Ret([res.st EXCEPT !.infixLog =
            Append(@, [op |-> op, lhe |-> lhe, rhe |-> rhe,
                       lacc |-> lhe_access.val, racc |-> rhe_access.val,
                       pre |-> Snap(st), mid |-> Snap(rhe_access.st),
                       post |-> Snap(res.st), res |-> res.val])],
        res.val))))

\* handle_call, lines 330-340: the argument values, evaluated in the
\* caller's frame.
RECURSIVE EvalArgs(_, _, _, _)
EvalArgs(st, args, i, arg_values) ==
    IF i > Len(args) THEN Ret(st, arg_values)
    ELSE With(Invoke(st, "process_expression", args[i]), LAMBDA value_access :
         GetRet(value_access.st,
                OkOrEmpty(get_variable_value(value_access.st, value_access.val)),
                LAMBDA value :
         EvalArgs(value_access.st, args, i + 1, Append(arg_values, value))))

\* handle_call, lines 345-353: declare and set the i-th and later arguments
\* (zip stops at the shorter of names and values).
RECURSIVE BindArgs(_, _, _, _)
BindArgs(st, arg_names, arg_values, i) ==
    IF i > Len(arg_names) \/ i > Len(arg_values) THEN st
    ELSE Then(declare_item(st, "Variable", UserName(arg_names[i]), <<>>), LAMBDA st1 :
         Then(set_variable(st1, DataAccess(UserName(arg_names[i]), <<>>),
                           Some(arg_values[i])), LAMBDA st2 :
         BindArgs(st2, arg_names, arg_values, i + 1)))

\* handle_call, lines 362-368: the function's return value, None if RETURN
\* cannot be read.
FunctionReturn(st) ==
    Do(get_variable_value(st, DataAccess(RETURN_VAR, <<>>)), LAMBDA r :
       IF r.err = OK THEN r.val ELSE None)

\* handle_call, lines 370-379: the Signal records of the signals names[i..],
\* inserted into component_return.
RECURSIVE ComponentReturnFrom(_, _, _, _)
ComponentReturnFrom(st, names, i, component_return) ==
    IF i > Len(names) THEN Result(OK, component_return)
    ELSE Do(get_signal(st, UserName(names[i])), LAMBDA ids :
            IF ids.err # OK THEN Result(ids.err, EmptyMap)
            ELSE ComponentReturnFrom(st, names, i + 1,
                                     (names[i] :> ids.val) @@ component_return))

\* Variant of GatherReturn that gathers a template's input signals only.
GatherReturnInputsOnly(st, id) ==
    IF contains_function(id) THEN Result(OK, FunctionReturn(st))
    ELSE ComponentReturnFrom(st, Archive[id].inputs, 1, EmptyMap)

\* handle_call, lines 358-380: the return data, read in the callee's frame.
GatherReturn(st, id) ==
    IF contains_function(id) THEN Result(OK, FunctionReturn(st))
    ELSE ComponentReturnFrom(st, Archive[id].inputs \o Archive[id].outputs, 1, EmptyMap)

\* handle_call, lines 384-396: in the caller's frame, declare the return
\* item named return_access and fill it.
DeclareReturn(st, id, return_access, gathered) ==
    IF contains_function(id)
    THEN ThenRet(declare_item(st, "Variable", return_access.name, <<>>), LAMBDA st1 :
         ThenRet(set_variable(st1, return_access, gathered), LAMBDA st2 :
         Ret(st2, return_access)))
    ELSE ThenRet(declare_item(st, "Component", return_access.name, <<>>), LAMBDA st1 :
         ThenRet(set_component(st1, return_access, gathered), LAMBDA st2 :
         Ret(st2, return_access)))

\* Variant of CallPush that runs the callee in a frame inheriting the caller's.
CallPushInherited(st) == push_context(st, TRUE)

\* handle_call, lines 342-343: a new execution context.
CallPush(st) == push_context(st, FALSE)

\* handle_call.  retStack holds, for every call being executed, the value of
\* the last Return statement executed in it (None if none); every call that
\* returns Ok is recorded in callLog: the frames when the callee's frame was
\* pushed (pre), the callee's frame when it was popped (callee), the frames
\* at return (post), the return item (ret) and what was stored in it.
handle_call(st, id, args) ==
    IF ~contains_function(id) /\ ~contains_template(id)
    THEN Ret(Fail(st, "UndefinedFunctionOrTemplate"), NoAccess)
    ELSE
    With(EvalArgs(st, args, 1, <<>>), LAMBDA arg_values :
    ThenRet(BindArgs([CallPush(arg_values.st) EXCEPT !.retStack = Append(@, None)],
                     Archive[id].params, arg_values.val, 1), LAMBDA st1 :
    ThenRet(Invoke(st1, "process_statements", Archive[id].body), LAMBDA st2 :
    GetRet(st2, GatherReturn(st2, id), LAMBDA gathered :
    ThenRet(pop_context(st2, FALSE), LAMBDA st3 :
    With(DeclareReturn([st3 EXCEPT !.counter = @ + 1], id,
                       DataAccess(ReturnName(id, st3.counter), <<>>), gathered),
         LAMBDA res :
    Ret([res.st EXCEPT
           !.retStack = SubSeq(@, 1, Len(@) - 1),
           !.callLog =
              Append(@, [id |-> id, is_function |-> contains_function(id),
                         pre |-> Snap(arg_values.st),
                         callee |-> st2.stack[Len(st2.stack)],
                         depth |-> Len(st2.stack),
                         post |-> Snap(res.st), ret |-> res.val,
                         returned |-> st2.retStack[Len(st2.retStack)],
                         gathered |-> gathered])],
        res.val)))))))

\* process_expression -> DataAccess
process_expression(st, e) ==
    CASE e.kind = "Call" -> handle_call(st, e.id, e.args)
      [] e.kind = "InfixOp" -> handle_infix_op(st, e.infix_op, e.lhe, e.rhe)
      [] e.kind = "Number" ->
           With(declare_random_item(st, "Variable"), LAMBDA access :
           IF to_u32(e.value) = None THEN Ret(Fail(access.st, "ParsingError"), NoAccess)
           ELSE ThenRet(set_variable(access.st, access.val, to_u32(e.value)),
                        LAMBDA st1 : Ret(st1, access.val)))
      [] e.kind = "Variable" -> build_access(st, e.name, e.access)
      [] OTHER -> Ret(st, NoAccess)

\* Variant of process_statements that stops once RETURN is declared in the
\* current frame.
process_statementsUntilReturn(st, statements) ==
    IF statements = <<>> THEN st
    ELSE IF Len(statements) = 1 THEN Invoke(st, "process_statement", statements[1])
    ELSE Then(Invoke(st, "process_statements",
                     SubSeq(statements, 1, Len(statements) \div 2)), LAMBDA st1 :
         IF RETURN_VAR \in DOMAIN st1.stack[current_context(st1)].items THEN st1
         ELSE Invoke(st1, "process_statements",
                     SubSeq(statements, Len(statements) \div 2 + 1, Len(statements))))

\* process_statements: each statement in turn, stopping at the first error
\* (the first half of the statements, then the second half).
process_statements(st, statements) ==
    IF statements = <<>> THEN st
    ELSE IF Len(statements) = 1 THEN Invoke(st, "process_statement", statements[1])
    ELSE Then(Invoke(st, "process_statements",
                     SubSeq(statements, 1, Len(statements) \div 2)), LAMBDA st1 :
         Invoke(st1, "process_statements",
                SubSeq(statements, Len(statements) \div 2 + 1, Len(statements))))

\* Declaration, lines 57-60: the dimension expressions, all evaluated before
\* any value is read.
RECURSIVE EvalDimensions(_, _, _, _)
EvalDimensions(st, dimensions, i, dim_access) ==
    IF i > Len(dimensions) THEN Ret(st, dim_access)
    ELSE With(Invoke(st, "process_expression", dimensions[i]), LAMBDA access :
         EvalDimensions(access.st, dimensions, i + 1, Append(dim_access, access.val)))

\* Declaration, lines 63-69: the values of the dimensions, or the first error.
DimensionValues(st, dim_access) ==
    Do([i \in DOMAIN dim_access |-> OkOrEmpty(get_variable_value(st, dim_access[i]))],
       LAMBDA values :
       IF \E i \in DOMAIN values : values[i].err # OK
       THEN Result(values[CHOOSE i \in DOMAIN values :
                             /\ values[i].err # OK
                             /\ \A j \in 1..(i - 1) : values[j].err = OK].err, <<>>)
       ELSE Result(OK, [i \in DOMAIN values |-> values[i].val]))

\* Variant of RegisterLeaf that leaves the loop when increment_indices
\* reports a next leaf.
RegisterLeafBreakInverted(loop, name, dimensions) ==
    IF loop.st.err # OK \/ ~loop.more THEN loop
    ELSE Do(get_signal_id(loop.st, DataAccess(name, u32_to_access(loop.indices))),
            LAMBDA signal_id :
         IF signal_id.err # OK
         THEN [loop EXCEPT !.st = Fail(loop.st, signal_id.err)]
         ELSE Do(add_signal(loop.st, signal_id.val), LAMBDA st1 :
              IF st1.err # OK THEN [loop EXCEPT !.st = st1]
              ELSE Do(increment_indices(loop.indices, dimensions), LAMBDA next :
                   [st |-> st1, indices |-> next.indices, more |-> ~next.more])))

\* Declaration, lines 82-92: one iteration of the loop.  `loop` is the loop's
\* state: the state st, the indices of the next leaf, and more = FALSE once
\* increment_indices has reported the end.
RegisterLeaf(loop, name, dimensions) ==
    IF loop.st.err # OK \/ ~loop.more THEN loop
    ELSE Do(get_signal_id(loop.st, DataAccess(name, u32_to_access(loop.indices))),
            LAMBDA signal_id :
         IF signal_id.err # OK
         THEN [loop EXCEPT !.st = Fail(loop.st, signal_id.err)]
         ELSE Do(add_signal(loop.st, signal_id.val), LAMBDA st1 :
              IF st1.err # OK THEN [loop EXCEPT !.st = st1]
              ELSE Do(increment_indices(loop.indices, dimensions), LAMBDA next :
                   [st |-> st1, indices |-> next.indices, more |-> next.more])))

\* Declaration, lines 82-92: `count` iterations of the loop (the first half
\* of them, then the second half); iterations after the loop's end change
\* nothing.
RECURSIVE RegisterLeaves(_, _, _, _)
RegisterLeaves(loop, name, dimensions, count) ==
    IF count = 0 THEN loop
    ELSE IF count = 1 THEN RegisterLeaf(loop, name, dimensions)
    ELSE Do(RegisterLeaves(loop, name, dimensions, count \div 2), LAMBDA half :
         RegisterLeaves(half, name, dimensions, count - count \div 2))

\* Declaration, lines 72-94: a declared signal is added to the circuit.  The
\* loop over the leaves ends within Product(dimensions) iterations, and
\* within one if a dimension is 0.
RegisterSignal(st, name, dimensions) ==
    IF dimensions = <<>>
    THEN Get(st, get_signal_id(st, DataAccess(name, <<>>)), LAMBDA signal_id :
         add_signal(st, signal_id))
    ELSE RegisterLeaves([st |-> st, indices |-> [i \in DOMAIN dimensions |-> 0],
                         more |-> TRUE],
                        name, dimensions,
                        IF Product(dimensions) = 0 THEN 1 ELSE Product(dimensions)).st

\* Statement::Declaration
ProcessDeclaration(st, s) ==
    Get(st, DataTypeOf(s.xtype), LAMBDA data_type :
    WithSt(EvalDimensions(st, s.dimensions, 1, <<>>), LAMBDA dim_access :
    Get(dim_access.st, DimensionValues(dim_access.st, dim_access.val),
        LAMBDA dimensions :
    Then(declare_item(dim_access.st, data_type, UserName(s.name), dimensions),
         LAMBDA st1 :
    IF data_type = "Signal"
    THEN RegisterSignal(st1, UserName(s.name), dimensions)
    ELSE st1))))

\* Variant of WhileStep that leaves the loop after the body ran once.
WhileStepOnce(loop, s) ==
    IF loop.st.err # OK \/ loop.done THEN loop
    ELSE Do(Invoke(loop.st, "process_expression", s.cond), LAMBDA access :
         IF access.st.err # OK THEN [loop EXCEPT !.st = access.st]
         ELSE Do(OkOrEmpty(get_variable_value(access.st, access.val)), LAMBDA result :
              IF result.err # OK
              THEN [loop EXCEPT !.st = Fail(access.st, result.err)]
              ELSE IF result.val = 0
              THEN [loop EXCEPT !.st = access.st, !.done = TRUE,
                                !.conds = Append(@, result.val)]
              ELSE Do(Then(Invoke(push_context(access.st, TRUE), "process_statement",
                                  s.stmt), LAMBDA st1 :
                      pop_context(st1, TRUE)), LAMBDA st2 :
                   [loop EXCEPT !.st = st2, !.done = TRUE,
                                !.conds = Append(@, result.val),
                                !.bodies = @ + 1])))

\* While, lines 100-114: one turn of `loop { .. }`.  `loop` is the loop's
\* state: the state st, done = TRUE once the condition was 0 (break), and
\* (history) the condition values read and the number of body executions.
WhileStep(loop, s) ==
    IF loop.st.err # OK \/ loop.done THEN loop
    ELSE Do(Invoke(loop.st, "process_expression", s.cond), LAMBDA access :
         IF access.st.err # OK THEN [loop EXCEPT !.st = access.st]
         ELSE Do(OkOrEmpty(get_variable_value(access.st, access.val)), LAMBDA result :
              IF result.err # OK
              THEN [loop EXCEPT !.st = Fail(access.st, result.err)]
              ELSE IF result.val = 0
              THEN [loop EXCEPT !.st = access.st, !.done = TRUE,
                                !.conds = Append(@, result.val)]
              ELSE Do(Then(Invoke(push_context(access.st, TRUE), "process_statement",
                                  s.stmt), LAMBDA st1 :
                      pop_context(st1, TRUE)), LAMBDA st2 :
                   [loop EXCEPT !.st = st2, !.conds = Append(@, result.val),
                                !.bodies = @ + 1])))

\* While, lines 100-114: `count` turns of the loop (the first half of them,
\* then the second half); turns after the loop's end change nothing.
RECURSIVE WhileLoop(_, _, _)
WhileLoop(loop, s, count) ==
    IF count = 1 THEN WhileStep(loop, s)
    ELSE Do(WhileLoop(loop, s, count \div 2), LAMBDA half :
         WhileLoop(half, s, count - count \div 2))

\* While, lines 100-114: the loop, run until it breaks or a turn returns an
\* error: `count` turns, then twice as many, and so on.  There is no limit
\* to the number of turns.
RECURSIVE WhileRun(_, _, _)
WhileRun(loop, s, count) ==
    Do(WhileLoop(loop, s, count), LAMBDA turned :
       IF turned.done \/ turned.st.err # OK THEN turned
       ELSE WhileRun(turned, s, 2 * count))

\* Statement::While.  Every loop that completes is recorded in whileLog.
ProcessWhile(st, s) ==
    Do(WhileRun([st |-> push_context(st, TRUE), done |-> FALSE,
                 conds |-> <<>>, bodies |-> 0], s, 1), LAMBDA loop :
    IF loop.st.err # OK THEN loop.st
    ELSE Then(pop_context(loop.st, TRUE), LAMBDA st1 :
         [st1 EXCEPT !.whileLog =
             Append(@, [stmt |-> s, pre |-> Snap(st), post |-> Snap(st1),
                        conds |-> loop.conds, bodies |-> loop.bodies])]))

\* IfThenElse, lines 131-145: a branch under its own inherited frame.
ProcessBranch(st, branch) ==
    Then(Invoke(push_context(st, TRUE), "process_statement", branch), LAMBDA st1 :
    pop_context(st1, TRUE))

\* Variant of TakeBranch that runs if_case when the condition is 0 and
\* else_case when it is not.
TakeBranchSwapped(st, s, result) ==
    IF result # 0
    THEN (IF s.else_case # <<>> THEN ProcessBranch(st, s.else_case[1]) ELSE st)
    ELSE ProcessBranch(st, s.if_case)

\* IfThenElse, lines 131-145: the branch that the condition value selects.
TakeBranch(st, s, result) ==
    IF result = 0
    THEN (IF s.else_case # <<>> THEN ProcessBranch(st, s.else_case[1]) ELSE st)
    ELSE ProcessBranch(st, s.if_case)

\* Statement::IfThenElse; else_case is <<>> (None) or <<statement>>.  Every
\* statement that completes is recorded in stmtLog: the state at entry
\* (pre), the state after the condition was evaluated (at), the condition
\* value, and the circuit and frames at return (post).
ProcessIfThenElse(st, s) ==
    WithSt(Invoke(st, "process_expression", s.cond), LAMBDA access :
    Get(access.st, OkOrEmpty(get_variable_value(access.st, access.val)),
        LAMBDA result :
    Then(TakeBranch(access.st, s, result), LAMBDA st1 :
    [st1 EXCEPT !.stmtLog =
        Append(@, [stmt |-> s, pre |-> Core(st), at |-> Core(access.st),
                   result |-> result, post |-> Snap(st1)])])))

\* Variant of SubstituteSignal that connects the left-hand signal to the
\* right-hand side.
SubstituteSignalReversed(st, lh_access, rh_access) ==
    Get(st, get_signal_id(st, lh_access), LAMBDA given_output_id :
    WithSt(get_signal_for_access(st, rh_access), LAMBDA gate_output_id :
    add_connection(gate_output_id.st, given_output_id, gate_output_id.val)))

\* Substitution, lines 159-165: the left-hand side is a signal.
SubstituteSignal(st, lh_access, rh_access) ==
    Get(st, get_signal_id(st, lh_access), LAMBDA given_output_id :
    WithSt(get_signal_for_access(st, rh_access), LAMBDA gate_output_id :
    add_connection(gate_output_id.st, gate_output_id.val, given_output_id)))

\* Substitution, lines 166-170: the left-hand side is a variable.
SubstituteVariable(st, lh_access, rh_access) ==
    Get(st, get_variable_value(st, rh_access), LAMBDA value :
    set_variable(st, lh_access, value))

\* Variant of SubstituteComponent that connects the component's signal to
\* the assigned signal.
SubstituteComponentReversed(st, op, lh_access, rh_access) ==
    IF op = "AssignVar"
    THEN Get(st, get_component_map(st, rh_access), LAMBDA signal_map :
         set_component(st, lh_access, signal_map))
    ELSE IF op = "AssignConstraintSignal"
    THEN Get(st, get_component_signal_id(st, lh_access), LAMBDA component_signal :
         WithSt(get_signal_for_access(st, rh_access), LAMBDA assigned_signal :
         add_connection(assigned_signal.st, component_signal, assigned_signal.val)))
    ELSE Fail(st, "OperationNotSupported")

\* Variant of SubstituteComponent that treats every operator other than `=`
\* as `<==`.
SubstituteComponentConstraining(st, op, lh_access, rh_access) ==
    IF op = "AssignVar"
    THEN Get(st, get_component_map(st, rh_access), LAMBDA signal_map :
         set_component(st, lh_access, signal_map))
    ELSE Get(st, get_component_signal_id(st, lh_access), LAMBDA component_signal :
         WithSt(get_signal_for_access(st, rh_access), LAMBDA assigned_signal :
         add_connection(assigned_signal.st, assigned_signal.val, component_signal)))

\* Substitution, lines 171-185: the left-hand side is a component.
SubstituteComponent(st, op, lh_access, rh_access) ==
    IF op = "AssignVar"
    THEN Get(st, get_component_map(st, rh_access), LAMBDA signal_map :
         set_component(st, lh_access, signal_map))
    ELSE IF op = "AssignConstraintSignal"
    THEN Get(st, get_component_signal_id(st, lh_access), LAMBDA component_signal :
         WithSt(get_signal_for_access(st, rh_access), LAMBDA assigned_signal :
         add_connection(assigned_signal.st, assigned_signal.val, component_signal)))
    ELSE Fail(st, "OperationNotSupported")

\* Substitution, lines 158-186: the match on the type of the left-hand name.
SubstituteByType(st, s, data_type, lh_access, rh_access) ==
    IF data_type = "Signal" THEN SubstituteSignal(st, lh_access, rh_access)
    ELSE IF data_type = "Variable" THEN SubstituteVariable(st, lh_access, rh_access)
    ELSE SubstituteComponent(st, s.op, lh_access, rh_access)

\* Statement::Substitution.  Every statement that completes is recorded in
\* stmtLog: the state at entry (pre), the state after both sides were
\* evaluated (at), the type of the left-hand name, the two accesses, and the
\* circuit and frames at return (post).
ProcessSubstitution(st, s) ==
    WithSt(build_access(st, s.var, s.access), LAMBDA lh_access :
    WithSt(Invoke(lh_access.st, "process_expression", s.rhe), LAMBDA rh_access :
    Get(rh_access.st, get_item_data_type(rh_access.st, UserName(s.var)),
        LAMBDA data_type :
    Then(SubstituteByType(rh_access.st, s, data_type, lh_access.val, rh_access.val),
         LAMBDA st1 :
    [st1 EXCEPT !.stmtLog =
        Append(@, [stmt |-> s, pre |-> Core(st), at |-> Core(rh_access.st),
                   data_type |-> data_type, lh |-> lh_access.val,
                   rh |-> rh_access.val, post |-> Snap(st1)])]))))

\* Statement::Return.  retStack notes the value for the call being executed.
ProcessReturn(st, s) ==
    WithSt(Invoke(st, "process_expression", s.value), LAMBDA return_access :
    Get(return_access.st,
        OkOrEmpty(get_variable_value(return_access.st, return_access.val)),
        LAMBDA return_value :
    Then(declare_item(return_access.st, "Variable", RETURN_VAR, <<>>), LAMBDA st1 :
    Then(set_variable(st1, DataAccess(RETURN_VAR, <<>>), Some(return_value)),
         LAMBDA st2 :
    IF st2.retStack = <<>> THEN st2
    ELSE [st2 EXCEPT !.retStack[Len(st2.retStack)] = Some(return_value)]))))

\* Variant of ProcessDeferred that evaluates the statement's sub-expression.
ProcessDeferredEvaluating(st, s) == Invoke(st, "process_expression", s.arg).st

\* process_statement, lines 203-222: MultSubstitution, UnderscoreSubstitution,
\* ConstraintEquality, LogCall and Assert print a notice and return Ok(()).
ProcessDeferred(st, s) == st

\* process_statement
process_statement(st, s) ==
    CASE s.kind = "Block" -> process_statements(st, s.stmts)
      [] s.kind = "InitializationBlock" -> process_statements(st, s.initializations)
      [] s.kind = "Declaration" -> ProcessDeclaration(st, s)
      [] s.kind = "While" -> ProcessWhile(st, s)
      [] s.kind = "IfThenElse" -> ProcessIfThenElse(st, s)
      [] s.kind = "Substitution" -> ProcessSubstitution(st, s)
      [] s.kind = "Return" -> ProcessReturn(st, s)
      [] OTHER -> ProcessDeferred(st, s)

\* A call of process_statement, process_statements or process_expression.
Invoke(st, function, argument) ==
    CASE function = "process_statement" -> process_statement(st, argument)
      [] function = "process_statements" -> process_statements(st, argument)
      [] function = "process_expression" -> process_expression(st, argument)

\* -------------------------------------------------------------- programs

\* `var name = e;` and `component name = e;` are initialization blocks.
VarInit(name, e) ==
    InitializationBlock(<<Declaration("Var", name, <<>>),
                          Substitution(name, <<>>, "AssignVar", e)>>)
ComponentInit(name, e) ==
    InitializationBlock(<<Declaration("Component", name, <<>>),
                          Substitution(name, <<>>, "AssignVar", e)>>)
Assign(name, e) == Substitution(name, <<>>, "AssignVar", e)
Constrain(name, e) == Substitution(name, <<>>, "AssignConstraintSignal", e)
Signal(xtype, name) == Declaration(xtype, name, <<>>)

\* var a = 3; var b = 4; var c = a*b + 1;
PureArithmetic ==
    <<VarInit("a", Number(3)), VarInit("b", Number(4)),
      VarInit("c", InfixOp(InfixOp(V("a"), "Mul", V("b")), "Add", Number(1)))>>

\* signal input x; signal output y; y <== x op c;
OneGate(op, c) ==
    <<Signal("SignalInput", "x"), Signal("SignalOutput", "y"),
      Constrain("y", InfixOp(V("x"), op, Number(c)))>>

\* signal q; signal s[d1]..[dn];
ArrayDeclaration(shape) ==
    <<Signal("SignalIntermediate", "q"),
      Declaration("SignalIntermediate", "s", [i \in DOMAIN shape |-> Number(shape[i])])>>

Shapes == UNION {[1..n -> 0..MaxDim] : n \in 0..MaxRank}

\* var i = 0; var sum = 0; while (i < N) { sum = sum + i; i = i + 1; }
WhileBody ==
    Block(<<Assign("sum", InfixOp(V("sum"), "Add", V("i"))),
            Assign("i", InfixOp(V("i"), "Add", Number(1)))>>)
WhileScalar(N) ==
    <<VarInit("i", Number(0)), VarInit("sum", Number(0)),
      While(InfixOp(V("i"), "Lesser", Number(N)), WhileBody)>>

\* The same loop with a loop-local declaration: { var t = i; sum = sum + t; .. }
WhileLocalBody ==
    Block(<<VarInit("t", V("i")),
            Assign("sum", InfixOp(V("sum"), "Add", V("t"))),
            Assign("i", InfixOp(V("i"), "Add", Number(1)))>>)
WhileLocal(N) ==
    <<VarInit("i", Number(0)), VarInit("sum", Number(0)),
      While(InfixOp(V("i"), "Lesser", Number(N)), WhileLocalBody)>>

\* signal input x, y; signal output z; component m = Mul();
\* m.a <== x; m.b <== y; z <== m.c;
TemplateInstantiation ==
    <<Signal("SignalInput", "x"), Signal("SignalInput", "y"),
      Signal("SignalOutput", "z"), ComponentInit("m", Call("Mul", <<>>)),
      Substitution("m", <<ComponentAccess("a")>>, "AssignConstraintSignal", V("x")),
      Substitution("m", <<ComponentAccess("b")>>, "AssignConstraintSignal", V("y")),
      Constrain("z", Variable("m", <<ComponentAccess("c")>>))>>

\* var a = 3; var v = id(arg);   (functions)
FunctionCall(id, arg) == <<VarInit("a", Number(3)), VarInit("v", Call(id, <<Number(arg)>>))>>

\* signal input x; component m = id(args); m.a <== x; signal output z; z <== m.c;
TemplateCall(id, args) ==
    <<Signal("SignalInput", "x"), ComponentInit("m", Call(id, args)),
      Substitution("m", <<ComponentAccess("a")>>, "AssignConstraintSignal", V("x")),
      Signal("SignalOutput", "z"),
      Constrain("z", Variable("m", <<ComponentAccess("c")>>))>>

\* signal s[2]; signal input x; s[1] op x;
ArrayConstrain(op) ==
    <<Declaration("SignalIntermediate", "s", <<Number(2)>>), Signal("SignalInput", "x"),
      Substitution("s", <<ArrayAccess(Number(1))>>, op, V("x"))>>

AssignOps == {"AssignVar", "AssignSignal", "AssignConstraintSignal"}

\* var a = 2; component m; a = a + m.c;     (m is not bound: m.c has no id)
CoercionFails ==
    <<VarInit("a", Number(2)), Signal("Component", "m"),
      Assign("a", InfixOp(V("a"), "Add", Variable("m", <<ComponentAccess("c")>>)))>>

\* signal input x; x <== 3; signal s[2];    (s[0], s[1] are allocated ids 2, 3)
PartialDeclaration ==
    <<Signal("SignalInput", "x"), Constrain("x", Number(3)),
      Declaration("SignalIntermediate", "s", <<Number(2)>>)>>

\* var r = a op b;
Arithmetic(op, a, b) == <<VarInit("r", InfixOp(Number(a), op, Number(b)))>>

Operands == 0..MaxOperand

\* var a = 2; a = e;   and   var a = 2; a = a + e;   (e an unimplemented form)
UnimplementedUse(k) ==
    <<VarInit("a", Number(2)), Assign("a", Unimplemented(k))>>
UnimplementedOperand(k) ==
    <<VarInit("a", Number(2)), Assign("a", InfixOp(V("a"), "Add", Unimplemented(k)))>>

\* signal input x; component m = Mul(); m.a <-- x;
ComponentSignalAssign ==
    <<Signal("SignalInput", "x"), ComponentInit("m", Call("Mul", <<>>)),
      Substitution("m", <<ComponentAccess("a")>>, "AssignSignal", V("x"))>>

\* signal input x; <deferred statement k on x * x>;
DeferredOnProduct(k) ==
    <<Signal("SignalInput", "x"), Deferred(k, InfixOp(V("x"), "Mul", V("x")))>>

\* signal input x; { return 1; signal output y; y <== x * x; }
ReturnInBlock ==
    <<Signal("SignalInput", "x"),
      Block(<<Return(Number(1)), Signal("SignalOutput", "y"),
              Constrain("y", InfixOp(V("x"), "Mul", V("x")))>>)>>

\* { return 1; var t = 2; return t; }
ReturnTwice ==
    <<Block(<<Return(Number(1)), VarInit("t", Number(2)), Return(V("t"))>>)>>

\* var r = a op b;      (a and b literals given by their digits, among
\* those of 1, 2, 32, 2^31, 2^32 - 1 and 2^32)
WideArithmetic(op, a, b) == <<VarInit("r", InfixOp(BigNumber(a), op, BigNumber(b)))>>

\* component c[1 + 1];     (an anonymous component, which DataType::try_from rejects)
RejectedType ==
    <<Declaration("AnonymousComponent", "c", <<InfixOp(Number(1), "Add", Number(1))>>)>>

\* var f_RETURN_4; var v = f(2);
ReturnNameTaken ==
    <<Signal("Var", "f_RETURN_4"), VarInit("v", Call("f", <<Number(2)>>))>>

\* var a = 0;
\* if (a) signal input x; else a = 5;      (a is 0: the else branch)
\* if (a) signal input x; else a = 7;      (a is 5: the if branch)
BothBranches ==
    <<VarInit("a", Number(0)),
      IfThenElse(V("a"), Signal("SignalInput", "x"), <<Assign("a", Number(5))>>),
      IfThenElse(V("a"), Signal("SignalInput", "x"), <<Assign("a", Number(7))>>)>>

\* var a = 1; if (a) { q = 2; }            (q is not declared)
BranchFails ==
    <<VarInit("a", Number(1)), IfThenElse(V("a"), Assign("q", Number(2)), <<>>)>>

\* var a = 1; while (a) { q = 2; }
LoopFails ==
    <<VarInit("a", Number(1)), While(V("a"), Assign("q", Number(2)))>>

Scenarios ==
    {PureArithmetic, TemplateInstantiation, CoercionFails, PartialDeclaration,
     BranchFails, LoopFails, ComponentSignalAssign, ReturnInBlock, ReturnTwice,
     ReturnNameTaken, RejectedType, BothBranches}
    \cup {WideArithmetic(op, a, b) :
              op \in Opcodes,
              a \in {<<1>>, <<2>>, <<U32Bits>>, <<0, Half \div 2>>,
                     <<Half - 1, Half - 1>>, <<0, 0, 1>>},
              b \in {<<1>>, <<2>>, <<U32Bits>>, <<0, Half \div 2>>,
                     <<Half - 1, Half - 1>>, <<0, 0, 1>>}}
    \cup {ArrayConstrain(op) : op \in AssignOps}
    \cup {DeferredOnProduct(k) : k \in DeferredStatements}
    \cup {UnimplementedUse(k) : k \in UnimplementedExpressions}
    \cup {UnimplementedOperand(k) : k \in UnimplementedExpressions}
    \cup {Arithmetic(op, a, b) : op \in Opcodes, a \in Operands, b \in Operands}
    \cup {OneGate(op, c) : op \in {"Add", "Mul"}, c \in 0..MaxConst}
    \cup {ArrayDeclaration(shape) : shape \in Shapes}
    \cup {WhileScalar(N) : N \in 0..MaxLoopBound}
    \cup {WhileLocal(N) : N \in 0..MaxLoopBound}
    \cup {FunctionCall(id, arg) : id \in FunctionIds \cup {"nope"}, arg \in 0..2}
    \cup {TemplateCall("Inc", <<Number(2)>>), TemplateCall("Mul", <<>>),
          TemplateCall("Pair", <<>>)}

\* Statements combined freely, two at a time.
Pool ==
    {Signal("Var", "a"), VarInit("a", Number(2)), Signal("SignalInput", "x"),
     Signal("SignalOutput", "y"), Signal("Component", "m"),
     Assign("a", InfixOp(V("a"), "Add", Number(1))),
     Assign("a", InfixOp(Number(1), "Sub", Number(2))),
     Assign("a", InfixOp(Number(6), "Div", InfixOp(Number(1), "Sub", Number(1)))),
     Assign("a", Unimplemented("PrefixOp")),
     Assign("a", Number(-1)),
     Constrain("x", Number(1)), Constrain("y", V("x")),
     Constrain("x", InfixOp(V("x"), "Mul", V("x"))),
     Constrain("x", InfixOp(V("a"), "Add", V("x"))),
     Substitution("x", <<>>, "AssignSignal", InfixOp(Number(2), "Add", Number(3))),
     Assign("m", Call("Mul", <<>>)),
     Substitution("m", <<ComponentAccess("a")>>, "AssignSignal", V("x")),
     While(V("a"), Assign("a", InfixOp(V("a"), "Sub", Number(1)))),
     IfThenElse(V("a"), Signal("SignalInput", "x"), <<Assign("a", Number(5))>>),
     IfThenElse(Number(0), Assign("a", Number(5)), <<>>),
     Return(Number(1)), Return(V("a")),
     Block(<<Signal("Var", "a"), Assign("a", Number(1))>>),
     Deferred("Assert", InfixOp(V("a"), "Eq", Number(2))),
     Deferred("ConstraintEquality", V("x"))}

FreePrograms == UNION {[1..n -> Pool] : n \in 1..2}

Programs == Scenarios \cup FreePrograms

\* ---------------------------------------------------------- state machine

VARIABLES
    program,         \* the statements given to process_statements
    pc,              \* the statement process_statements executes next
    ac,              \* ArithmeticCircuit: signals, gates, connections
    stack,           \* Runtime: the context stack
    next_signal_id,  \* the next signal id to allocate
    counter,         \* generate_u32: the counter behind the synthetic names
    err,             \* "OK", or the error process_statements returned
    oplog,           \* history: the circuit operations that returned Ok
    infixLog,        \* history: the handle_infix_op calls that returned Ok
    callLog,         \* history: the handle_call calls that returned Ok
    whileLog,        \* history: the While statements that completed
    stmtLog,         \* history: the IfThenElse and Substitution statements that completed
    retStack,        \* history: the Return values of the calls in progress
    last             \* history: the statement last executed and the state before it

vars == <<build, program, pc, ac, stack, next_signal_id, counter, err, oplog,
          infixLog, callLog, whileLog, stmtLog, retStack, last>>

State ==
    [ac |-> ac, stack |-> stack, next_signal_id |-> next_signal_id,
     counter |-> counter, err |-> err, oplog |-> oplog, infixLog |-> infixLog,
     callLog |-> callLog, whileLog |-> whileLog, stmtLog |-> stmtLog,
     retStack |-> retStack]

NoStatement == [kind |-> "None"]

Init ==
    /\ build \in {"debug", "release"}
    /\ program \in Programs
    /\ pc = 1
    /\ ac = NewCircuit
    /\ stack = NewRuntime
    /\ next_signal_id = 1
    /\ counter = 0
    /\ err = OK
    /\ oplog = <<>>
    /\ infixLog = <<>>
    /\ callLog = <<>>
    /\ whileLog = <<>>
    /\ stmtLog = <<>>
    /\ retStack = <<>>
    /\ last = [stmt |-> NoStatement, pre |-> 0]

\* process_statements, lines 25-27: the loop has a statement of the given
\* kinds to process.
Ready(kinds) ==
    /\ err = OK
    /\ pc <= Len(program)
    /\ program[pc].kind \in kinds

\* process_statements, lines 25-27: one turn of the loop.
Execute ==
    /\ \E st \in {Invoke(State, "process_statement", program[pc])} :
           /\ ac' = st.ac
           /\ stack' = st.stack
           /\ next_signal_id' = st.next_signal_id
           /\ counter' = st.counter
           /\ err' = st.err
           /\ oplog' = st.oplog
           /\ infixLog' = st.infixLog
           /\ callLog' = st.callLog
           /\ whileLog' = st.whileLog
           /\ stmtLog' = st.stmtLog
           /\ retStack' = st.retStack
    /\ last' = [stmt |-> program[pc], pre |-> State]
    /\ pc' = pc + 1
    /\ UNCHANGED <<build, program>>

ExecBlock ==
    Ready({"Block"}) /\ Execute
ExecInitializationBlock ==
    Ready({"InitializationBlock"}) /\ Execute
ExecDeclaration ==
    Ready({"Declaration"}) /\ Execute
ExecWhile ==
    Ready({"While"}) /\ Execute
ExecIfThenElse ==
    Ready({"IfThenElse"}) /\ Execute
ExecSubstitution ==
    Ready({"Substitution"}) /\ Execute
ExecReturn ==
    Ready({"Return"}) /\ Execute
ExecDeferred ==
    Ready(DeferredStatements) /\ Execute

Next ==
    \/ ExecBlock
    \/ ExecInitializationBlock
    \/ ExecDeclaration
    \/ ExecWhile
    \/ ExecIfThenElse
    \/ ExecSubstitution
    \/ ExecReturn
    \/ ExecDeferred

Spec == Init /\ [][Next]_vars

\* The program ran to its end without an error.
Finished == pc = Len(program) + 1 /\ err = OK

\* ------------------------------------------------------------ properties

Range(seq) == {seq[i] : i \in DOMAIN seq}

\* The top frame of a recorded runtime.
TopFrame(snap) == snap.stack[Len(snap.stack)]

\* The id `id` was registered by one of the first k - 1 circuit operations.
RegisteredBefore(k, id) ==
    \E j \in 1..(k - 1) :
        oplog[j].op \in {"add_signal", "add_const"} /\ oplog[j].ids = <<id>>

\* C1: every signal id that a gate (lhs, rhs, out) or a connection (src,
\* dst) refers to was registered by add_signal or add_const before the gate
\* or connection was appended, and the interpreter never hands the circuit a
\* gate or connection with an unregistered id.
RegisteredBeforeUse ==
    /\ \A k \in DOMAIN oplog :
          oplog[k].op \in {"add_gate", "add_connection"} =>
              \A i \in DOMAIN oplog[k].ids : RegisteredBefore(k, oplog[k].ids[i])
    /\ err # "UnknownSignal"

\* A program that appended a gate and a connection ran to its end.
GateAndConnectionAppended ==
    /\ Finished
    /\ \E k \in DOMAIN oplog : oplog[k].op = "add_gate"
    /\ \E k \in DOMAIN oplog : oplog[k].op = "add_connection"

\* C2: the id that coercion returns for a variable operand, its value v
\* registered with add_const(v), is never the id of a non-constant signal:
\* every such v is a constant signal of the circuit.
ConstIdNeverCollides ==
    \A k \in DOMAIN oplog :
        oplog[k].op = "add_const" => IsConstSignal(ac, oplog[k].ids[1])

\* The declared shape of a declaration whose dimensions are literals.
LiteralShape(s) == [i \in DOMAIN s.dimensions |-> to_u32(s.dimensions[i].value)[1]]

\* The last statement processed declared a signal whose dimensions are
\* literals.
SignalDeclared ==
    /\ last.stmt.kind = "Declaration"
    /\ DataTypeOf(last.stmt.xtype) = Result(OK, "Signal")
    /\ \A i \in DOMAIN last.stmt.dimensions : last.stmt.dimensions[i].kind = "Number"

\* The circuit operations of the last statement processed.
LastOps == SubSeq(oplog, Len(last.pre.oplog) + 1, Len(oplog))

\* The index vectors of an array of shape dims, and their row-major order.
IndexVectors(dims) ==
    {I \in [DOMAIN dims -> 0..MaxDim] : \A i \in DOMAIN dims : I[i] < dims[i]}
RowMajorBefore(I, J) ==
    \E i \in DOMAIN I : I[i] < J[i] /\ \A j \in 1..(i - 1) : I[j] = J[j]

\* The id of the leaf at index vector I of the signal declared last.
DeclaredLeafId(I) ==
    get_signal_id(State, DataAccess(UserName(last.stmt.name), u32_to_access(I))).val

\* C3: a declaration of a signal of shape [d1..dn] that returns Ok performed
\* exactly d1*..*dn circuit operations, all add_signal, one per leaf, in
\* row-major order (one operation for a scalar); with a dimension of 0
\* nothing is registered.
DeclarationRegistersLeaves ==
    SignalDeclared =>
        /\ err = OK =>
              /\ Len(LastOps) = Product(LiteralShape(last.stmt))
              /\ \A k \in DOMAIN LastOps : LastOps[k].op = "add_signal"
              /\ \A I \in IndexVectors(LiteralShape(last.stmt)) :
                    \E k \in DOMAIN LastOps : LastOps[k].ids = <<DeclaredLeafId(I)>>
              /\ \A I, J \in IndexVectors(LiteralShape(last.stmt)) :
                    RowMajorBefore(I, J) =>
                        \E k, l \in DOMAIN LastOps :
                            /\ k < l
                            /\ LastOps[k].ids = <<DeclaredLeafId(I)>>
                            /\ LastOps[l].ids = <<DeclaredLeafId(J)>>
        /\ Product(LiteralShape(last.stmt)) = 0 => LastOps = <<>>

\* A signal array of rank 2 or more, with at least two rows and two columns,
\* was declared.
ArrayRegistered ==
    /\ SignalDeclared
    /\ err = OK
    /\ Len(last.stmt.dimensions) >= 2
    /\ \A i \in DOMAIN last.stmt.dimensions : LiteralShape(last.stmt)[i] >= 2

\* An expression built from literals, variables of the recorded runtime and
\* infix operators over them.
RECURSIVE ConstOnly(_, _)
ConstOnly(e, snap) ==
    CASE e.kind = "Number" -> TRUE
      [] e.kind = "Variable" ->
           /\ e.access = <<>>
           /\ get_item_data_type(snap, UserName(e.name)) = Result(OK, "Variable")
      [] e.kind = "InfixOp" -> ConstOnly(e.lhe, snap) /\ ConstOnly(e.rhe, snap)
      [] OTHER -> FALSE

\* The value of such an expression.
RECURSIVE ConstValue(_, _)
ConstValue(e, snap) ==
    CASE e.kind = "Number" -> to_u32(e.value)[1]
      [] e.kind = "Variable" ->
           get_variable_value(snap, DataAccess(UserName(e.name), <<>>)).val[1]
      [] OTHER ->
           execute_op(ConstValue(e.lhe, snap), ConstValue(e.rhe, snap), e.infix_op).val

\* The recorded evaluations of infix operations on constant-only operands.
ConstOnlyEvaluations ==
    {k \in DOMAIN infixLog :
        ConstOnly(infixLog[k].lhe, infixLog[k].pre)
        /\ ConstOnly(infixLog[k].rhe, infixLog[k].pre)}

\* C4: evaluating an infix expression built only from literals, variables
\* and infix operators left the circuit unchanged, and its result is a new
\* anonymous Variable that holds execute_op of the operand values.
ConstOnlyLeavesCircuit ==
    \A k \in ConstOnlyEvaluations :
        LET e == infixLog[k]
        IN  /\ e.post.ac = e.pre.ac
            /\ e.res.name \notin DOMAIN TopFrame(e.pre).items
            /\ e.res.name[1] = "random"
            /\ get_item_data_type(e.post, e.res.name) = Result(OK, "Variable")
            /\ get_variable_value(e.post, e.res) =
                  Result(OK, Some(execute_op(ConstValue(e.lhe, e.pre),
                                             ConstValue(e.rhe, e.pre), e.op).val))

\* A nested constant-only expression was evaluated after signals were
\* registered.
NestedConstOnlyEvaluated ==
    \E k \in ConstOnlyEvaluations :
        /\ infixLog[k].lhe.kind = "InfixOp" \/ infixLog[k].rhe.kind = "InfixOp"
        /\ err = OK

\* The signal id that stands for an operand (coercion), read in a recorded
\* runtime.
CoercedId(snap, access) ==
    CASE get_item_data_type(snap, access.name).val = "Signal" ->
           get_signal_id(snap, access).val
      [] get_item_data_type(snap, access.name).val = "Variable" ->
           get_variable_value(snap, access).val[1]
      [] OTHER -> get_component_signal_id(snap, access).val

NonConstIds(circuit) == {s.id : s \in {t \in Range(circuit.signals) : ~t.const}}

\* The recorded evaluations of infix operations with an operand that is not
\* a variable.
GateEvaluations ==
    {k \in DOMAIN infixLog :
        \/ get_item_data_type(infixLog[k].mid, infixLog[k].lacc.name).val # "Variable"
        \/ get_item_data_type(infixLog[k].mid, infixLog[k].racc.name).val # "Variable"}

\* C5: when an operand of an infix operation is not a variable, a
\* handle_infix_op that returns Ok has, after evaluating its operands,
\* registered exactly one new non-constant signal, the newly declared
\* anonymous signal whose access it returns, and appended exactly one gate
\* op(l_id, r_id) -> out_id, l_id and r_id being the coerced ids of the
\* left and the right operand, and no connection.
InfixBuildsOneGate ==
    \A k \in GateEvaluations :
        LET e == infixLog[k]
            out_id == get_signal_id(e.post, e.res).val
        IN  /\ e.res.name \notin DOMAIN TopFrame(e.mid).items
            /\ get_item_data_type(e.post, e.res.name) = Result(OK, "Signal")
            /\ ~contains_signal(e.mid.ac, out_id)
            /\ NonConstIds(e.post.ac) = NonConstIds(e.mid.ac) \cup {out_id}
            /\ e.post.ac.gates =
                  Append(e.mid.ac.gates,
                         [type |-> AGateType(e.op), lhs |-> CoercedId(e.mid, e.lacc),
                          rhs |-> CoercedId(e.mid, e.racc), out |-> out_id])
            /\ e.post.ac.connections = e.mid.ac.connections

\* A gate was built on two operands with different ids.
GateOnDistinctOperands ==
    \E k \in GateEvaluations :
        CoercedId(infixLog[k].mid, infixLog[k].lacc)
            # CoercedId(infixLog[k].mid, infixLog[k].racc)

\* C6: after a call, the caller's frame and the frames below it hold what
\* they held before the callee's frame was pushed, but for the new return
\* item declared in the caller's frame.
CallerFrameUnchanged ==
    \A k \in DOMAIN callLog :
        LET e == callLog[k]
            top == Len(e.pre.stack)
        IN  /\ Len(e.post.stack) = top
            /\ \A i \in 1..(top - 1) : e.post.stack[i] = e.pre.stack[i]
            /\ e.post.stack[top].inherit = e.pre.stack[top].inherit
            /\ e.ret.name \notin DOMAIN e.pre.stack[top].items
            /\ DOMAIN e.post.stack[top].items =
                  DOMAIN e.pre.stack[top].items \cup {e.ret.name}
            /\ \A n \in DOMAIN e.pre.stack[top].items :
                  e.post.stack[top].items[n] = e.pre.stack[top].items[n]

\* A callee declared and wrote a variable that has the name of a variable of
\* its caller, with another value.
CalleeShadowedCaller ==
    \E k \in DOMAIN callLog :
        /\ UserName("a") \in DOMAIN callLog[k].callee.items
        /\ UserName("a") \in DOMAIN TopFrame(callLog[k].pre).items
        /\ callLog[k].callee.items[UserName("a")]
              # TopFrame(callLog[k].pre).items[UserName("a")]

\* C7: the item that holds the result of a function call holds the value of
\* the Return statement that the body executed, wherever in the body it is,
\* and the uninitialized value only if the body executed none.
FunctionResultIsReturned ==
    \A k \in DOMAIN callLog :
        callLog[k].is_function =>
            get_variable_value(callLog[k].post, callLog[k].ret)
                = Result(OK, callLog[k].returned)

\* C8: after a template call, the Component item declared in the caller's
\* frame is bound to a map whose keys are the template's input and output
\* signal names, each mapped to the Signal record the name had in the
\* callee's frame when it was popped, and every id in it is registered.
ComponentBoundToSignals ==
    \A k \in DOMAIN callLog :
        ~callLog[k].is_function =>
            LET e == callLog[k]
                item == TopFrame(e.post).items[e.ret.name]
                binding == item.vals[1]
            IN  /\ item.type = "Component"
                /\ DOMAIN binding =
                      Range(Archive[e.id].inputs) \cup Range(Archive[e.id].outputs)
                /\ \A n \in DOMAIN binding :
                      /\ e.callee.items[UserName(n)].type = "Signal"
                      /\ binding[n] = [dims |-> e.callee.items[UserName(n)].dims,
                                       ids |-> e.callee.items[UserName(n)].vals]
                      /\ \A i \in DOMAIN binding[n].ids :
                            contains_signal(e.post.ac, binding[n].ids[i])

\* A template with an array input, an intermediate signal and an output was
\* called.
TemplateWithArrayCalled ==
    \E k \in DOMAIN callLog : callLog[k].id = "Pair"

\* The ids of the signals of the template-instantiation scenario.
ScalarId(name) == stack[1].items[UserName(name)].vals[1]
BoundId(name) == stack[1].items[UserName("m")].vals[1][name].ids[1]

\* The template-instantiation scenario ran to its end.
TemplateInstantiated == program = TemplateInstantiation /\ Finished

\* C9 as stated: the template-instantiation scenario ends with exactly one
\* Mul gate and exactly three connections, x -> m.a, y -> m.b and m.c -> z.
ThreeConnections ==
    TemplateInstantiated =>
        /\ Len(ac.gates) = 1
        /\ ac.gates[1].type = "Mul"
        /\ Len(ac.connections) = 3
        /\ Range(ac.connections) =
              {[src |-> ScalarId("x"), dst |-> BoundId("a")],
               [src |-> ScalarId("y"), dst |-> BoundId("b")],
               [src |-> BoundId("c"), dst |-> ScalarId("z")]}

\* C9, amended: the template-instantiation scenario ends with exactly one Mul
\* gate, on m.a and m.b, and exactly four connections: gate output -> m.c,
\* made by the template's body, then x -> m.a, y -> m.b and m.c -> z.
FourConnections ==
    TemplateInstantiated =>
        /\ Len(ac.gates) = 1
        /\ ac.gates[1].type = "Mul"
        /\ ac.gates[1].lhs = BoundId("a")
        /\ ac.gates[1].rhs = BoundId("b")
        /\ ac.connections =
              <<[src |-> ac.gates[1].out, dst |-> BoundId("c")],
                [src |-> ScalarId("x"), dst |-> BoundId("a")],
                [src |-> ScalarId("y"), dst |-> BoundId("b")],
                [src |-> BoundId("c"), dst |-> ScalarId("z")]>>

\* The value of a scalar variable of the root frame.
RootValue(name) == stack[1].items[UserName(name)].vals[1][1]

\* C10: a While statement that completed executed its body once for each
\* evaluation of the condition that gave a nonzero value and ended at the
\* first that gave 0; the frames hold the items they held before it, only
\* the values of variables changed; and the loops that sum 0..N-1 end with
\* i = N and sum = N*(N-1)/2.
WhileRunsToFirstZero ==
    /\ \A k \in DOMAIN whileLog :
          LET e == whileLog[k]
          IN  /\ e.conds # <<>>
              /\ e.conds[Len(e.conds)] = 0
              /\ \A i \in 1..(Len(e.conds) - 1) : e.conds[i] # 0
              /\ e.bodies = Len(e.conds) - 1
              /\ Len(e.post.stack) = Len(e.pre.stack)
              /\ \A i \in DOMAIN e.pre.stack :
                    /\ DOMAIN e.post.stack[i].items = DOMAIN e.pre.stack[i].items
                    /\ \A n \in DOMAIN e.pre.stack[i].items :
                          \/ e.post.stack[i].items[n] = e.pre.stack[i].items[n]
                          \/ /\ e.pre.stack[i].items[n].type = "Variable"
                             /\ e.post.stack[i].items[n].type = "Variable"
                             /\ e.post.stack[i].items[n].dims = e.pre.stack[i].items[n].dims
    /\ \A N \in 0..MaxLoopBound :
          (program \in {WhileScalar(N), WhileLocal(N)} /\ Finished) =>
              /\ RootValue("i") = N
              /\ 2 * RootValue("sum") = N * (N - 1)
              /\ UserName("t") \notin DOMAIN stack[1].items
              /\ ac = NewCircuit

\* A loop with a loop-local declaration ran its body MaxLoopBound times.
WhileLoopCompleted ==
    /\ program = WhileLocal(MaxLoopBound)
    /\ Finished
    /\ \E k \in DOMAIN whileLog : whileLog[k].bodies = MaxLoopBound

\* The recorded IfThenElse statements.
IfStatements == {k \in DOMAIN stmtLog : stmtLog[k].stmt.kind = "IfThenElse"}

\* The branch that the recorded condition value selects: <<>> if none.
TakenBranch(e) == IF e.result # 0 THEN <<e.stmt.if_case>> ELSE e.stmt.else_case

\* C11: an IfThenElse that completed evaluated its condition in the current
\* frame, and then did exactly what executing the taken branch alone, under
\* a new inherited frame that is popped afterwards, does: if_case for a
\* nonzero condition value, else_case for 0, nothing when else_case is
\* absent; the untaken branch changed neither the circuit nor a frame.
OnlyTakenBranchRuns ==
    \A k \in IfStatements :
        LET e == stmtLog[k]
        IN  /\ Len(e.at.stack) = Len(e.pre.stack)
            /\ e.at = Core(Invoke(e.pre, "process_expression", e.stmt.cond).st)
            /\ Len(e.post.stack) = Len(e.pre.stack)
            /\ IF TakenBranch(e) = <<>> THEN e.post = Snap(e.at)
               ELSE e.post =
                      Snap(pop_context(Invoke(push_context(e.at, TRUE),
                                              "process_statement", TakenBranch(e)[1]),
                                       TRUE))

\* `var a = 0; if (a) signal input x; else a = 5; if (a) signal input x;
\* else a = 7;` ran to its end.  The first IfThenElse read 0 and ran its
\* else branch only: a became 5 and no signal was registered.  The second
\* read 5 and ran its if branch only: x was registered and a is still 5.
BothBranchKindsTaken ==
    /\ program = BothBranches
    /\ Finished
    /\ \E i \in IfStatements, j \in IfStatements :
           /\ i < j
           /\ IfStatements = {i, j}
           /\ stmtLog[i].stmt = program[2] /\ stmtLog[j].stmt = program[3]
           /\ stmtLog[i].result = 0
           /\ stmtLog[i].stmt.else_case # <<>>
           /\ stmtLog[i].post.ac = stmtLog[i].pre.ac
           /\ stmtLog[i].post.stack # stmtLog[i].at.stack
           /\ stmtLog[j].result # 0
           /\ stmtLog[j].stmt.else_case # <<>>
           /\ stmtLog[j].post.ac # stmtLog[j].pre.ac
    /\ RootValue("a") = 5
    /\ Len(ac.signals) = 1

\* The recorded Substitution statements whose left-hand name is a signal,
\* and those to a component's signal with <==.
SignalSubstitutions ==
    {k \in DOMAIN stmtLog :
        stmtLog[k].stmt.kind = "Substitution" /\ stmtLog[k].data_type = "Signal"}
ComponentConstraints ==
    {k \in DOMAIN stmtLog :
        /\ stmtLog[k].stmt.kind = "Substitution"
        /\ stmtLog[k].data_type = "Component"
        /\ stmtLog[k].stmt.op = "AssignConstraintSignal"}

\* C12: a Substitution to a signal, with any assignment operator, appended,
\* after both sides were evaluated, exactly one connection rh_id -> lh_id
\* and no gate: rh_id the coerced id of the right-hand side, lh_id the id of
\* the addressed left-hand leaf; a Substitution to a component's signal
\* with <== likewise, lh_id being the id stored in the component.
SubstitutionConnectsRhToLh ==
    /\ \A k \in SignalSubstitutions :
          LET e == stmtLog[k]
          IN  /\ e.post.ac.connections =
                    Append(e.at.ac.connections,
                           [src |-> CoercedId(e.at, e.rh),
                            dst |-> get_signal_id(e.at, e.lh).val])
              /\ e.post.ac.gates = e.at.ac.gates
              /\ e.post.stack = e.at.stack
    /\ \A k \in ComponentConstraints :
          LET e == stmtLog[k]
          IN  /\ e.post.ac.connections =
                    Append(e.at.ac.connections,
                           [src |-> CoercedId(e.at, e.rh),
                            dst |-> get_component_signal_id(e.at, e.lh).val])
              /\ e.post.ac.gates = e.at.ac.gates
              /\ e.post.stack = e.at.stack

\* A leaf of a signal array was the left-hand side of a Substitution with =.
ArrayLeafConnected ==
    \E k \in SignalSubstitutions :
        /\ stmtLog[k].stmt.op = "AssignVar"
        /\ stmtLog[k].lh.access # <<>>
        /\ CoercedId(stmtLog[k].at, stmtLog[k].rh)
              # get_signal_id(stmtLog[k].at, stmtLog[k].lh).val

\* process_statement returned an error.  "Panic" is an arithmetic overflow in
\* a debug build, which aborts the program: process_statement does not return.
StatementFailed ==
    /\ last.stmt # NoStatement
    /\ err \notin {OK, "Panic"}

\* C13: whenever process_statement returns an error, the circuit is what it
\* was before the statement started.
FailingStatementLeavesCircuit == StatementFailed => ac = last.pre.ac

\* ---------------------------------------------------------------- C14

ScopedStatement ==
    /\ last.stmt # NoStatement
    /\ err # "Panic"

\* C14: whenever a statement (While, IfThenElse, or one that makes a call)
\* returns, with success or with an error raised inside the body, the context
\* stack has the depth it had when the statement was entered.
ScopesPaired == ScopedStatement => Len(stack) = Len(last.pre.stack)

\* ---------------------------------------------------------------- C15

\* The recorded evaluations of an infix operation on two variables, with the
\* operand values read where the operation was applied and the value of the
\* result item at return.
VariableEvaluations ==
    {k \in DOMAIN infixLog :
        /\ get_item_data_type(infixLog[k].mid, infixLog[k].lacc.name).val = "Variable"
        /\ get_item_data_type(infixLog[k].mid, infixLog[k].racc.name).val = "Variable"}

LhsValue(e) == get_variable_value(e.mid, e.lacc).val[1]
RhsValue(e) == get_variable_value(e.mid, e.racc).val[1]
ResValue(e) == get_variable_value(e.post, e.res).val[1]

\* floor(a / b) by repeated subtraction, for small a.
RECURSIVE Floor(_, _)
Floor(a, b) == IF a < b THEN 0 ELSE 1 + Floor(a - b, b)

\* a < b on 32-bit unsigned values, by their digits.
Less(a, b) == Hi(a) < Hi(b) \/ (Hi(a) = Hi(b) /\ Lo(a) < Lo(b))

\* q is floor(a / b) on 32-bit unsigned values: b * q <= a < b * q + b.
IsFloor(a, b, q) ==
    /\ ~MulU32(q, b).overflow
    /\ ~Less(a, MulU32(q, b).val)
    /\ Less(SubU32(a, MulU32(q, b).val).val, b)

\* The relation a comparison or boolean operator stands for.
Relation(op, a, b) ==
    CASE op = "Eq" -> a = b
      [] op = "NotEq" -> a # b
      [] op = "Lesser" -> Less(a, b)
      [] op = "LesserEq" -> ~Less(b, a)
      [] op = "Greater" -> Less(b, a)
      [] op = "GreaterEq" -> ~Less(a, b)
      [] op = "BoolAnd" -> a # 0 /\ b # 0
      [] op = "BoolOr" -> a # 0 \/ b # 0

Relations ==
    {"Eq", "NotEq", "Lesser", "LesserEq", "Greater", "GreaterEq", "BoolAnd", "BoolOr"}

\* C15: on operands a and b # 0, Div and IntDiv gave floor(a / b) and Mod gave
\* a - b * floor(a / b); a comparison, BoolAnd or BoolOr gave exactly 1 when
\* its relation holds on a and b (nonzero is true) and exactly 0 otherwise.
ExecuteOpMatches ==
    \A k \in VariableEvaluations :
        LET e == infixLog[k]
            a == LhsValue(e)
            b == RhsValue(e)
        IN  /\ e.op \in {"Div", "IntDiv"} =>
                  /\ b # 0 /\ IsFloor(a, b, ResValue(e))
                  /\ a \in Operands /\ b > 0 => ResValue(e) = Floor(a, b)
            /\ e.op = "Mod" =>
                  /\ b # 0 /\ IsFloor(a, b, execute_op(a, b, "Div").val)
                  /\ ResValue(e)
                        = SubU32(a, MulU32(b, execute_op(a, b, "Div").val).val).val
                  /\ a \in Operands /\ b > 0 => ResValue(e) = a - b * Floor(a, b)
            /\ e.op \in Relations =>
                  ResValue(e) = (IF Relation(e.op, a, b) THEN 1 ELSE 0)

\* The program `var r = a op b` ran to its end and applied op to a and b.
OperatorApplied(op, a, b) ==
    /\ program = Arithmetic(op, a, b)
    /\ Finished
    /\ VariableEvaluations = {1}
    /\ LhsValue(infixLog[1]) = a /\ RhsValue(infixLog[1]) = b

\* Mod was applied with a nonzero remainder.
RemainderComputed ==
    /\ OperatorApplied("Mod", 4, 3)
    /\ ResValue(infixLog[1]) = 1

\* ---------------------------------------------------------------- C16

ZeroDivisors == {"Div", "IntDiv", "Mod"}

\* The state after `var r` was declared and the operands a and 0 were
\* evaluated, which is where handle_infix_op applies the operation.
OperandsEvaluated(pre, a) ==
    Invoke(Invoke(Invoke(pre, "process_statement", Signal("Var", "r")),
                  "process_expression", Number(a)).st,
           "process_expression", Number(0)).st

\* `var r = a op 0` was executed, op one of Div, IntDiv, Mod.
DividedByZero(op, a) ==
    /\ program = Arithmetic(op, a, 0)
    /\ last.stmt = program[1]

\* C16: execute_op of Div, IntDiv or Mod with right operand 0 returns
\* OperationError for every left operand; in `var r = a op 0` the statement
\* returned OperationError, the circuit is unchanged and the frames are those
\* that hold r and the two operands: no result item was declared.
DivisionByZeroFails ==
    /\ \A op \in ZeroDivisors, a \in Operands \cup {U32Max} :
           execute_op(a, 0, op).err = "OperationError"
    /\ \A op \in ZeroDivisors, a \in Operands :
           DividedByZero(op, a) =>
               /\ err = "OperationError"
               /\ ac = last.pre.ac
               /\ stack = OperandsEvaluated(last.pre, a).stack
               /\ counter = OperandsEvaluated(last.pre, a).counter
               /\ infixLog = <<>>
               /\ get_variable_value(State, DataAccess(UserName("r"), <<>>)).val = None

\* `var r = 3 % 0` was executed.
ModuloByZeroExecuted == DividedByZero("Mod", 3) /\ err # OK

\* ---------------------------------------------------------------- C17

\* The second statement of `var a = 2; a = e;` or `var a = 2; a = a + e;`
\* was executed, e an unimplemented expression form.
UnimplementedUsed ==
    /\ \E k \in UnimplementedExpressions :
           program \in {UnimplementedUse(k), UnimplementedOperand(k)}
    /\ last.stmt = program[2]

\* C17: a statement that uses an unimplemented expression form as its
\* right-hand side or as an operand completes without returning an error.
UnimplementedCompletes == UnimplementedUsed => err = OK

\* ---------------------------------------------------------------- C18

\* The state after both sides of the Substitution last executed were
\* evaluated, which is where the match on the left-hand type is made.
SidesEvaluated ==
    Invoke(build_access(last.pre, last.stmt.var, last.stmt.access).st,
           "process_expression", last.stmt.rhe).st

\* The statement last executed is a Substitution to a component with an
\* operator other than = and <==, and both of its sides were evaluated.
OtherComponentSubstitution ==
    /\ last.stmt.kind = "Substitution"
    /\ last.stmt.op \notin {"AssignVar", "AssignConstraintSignal"}
    /\ SidesEvaluated.err = OK
    /\ get_item_data_type(SidesEvaluated, UserName(last.stmt.var)) = Result(OK, "Component")

\* C18: a Substitution whose left-hand name is a component and whose operator
\* is neither = nor <== returned OperationNotSupported; the circuit has no new
\* connection and the frames, the component's binding among them, are what
\* they were when the sides had been evaluated.
OtherOperatorNotSupported ==
    OtherComponentSubstitution =>
        /\ err = "OperationNotSupported"
        /\ ac = SidesEvaluated.ac
        /\ ac.connections = last.pre.ac.connections
        /\ stack = SidesEvaluated.stack
        /\ get_component_map(State, DataAccess(UserName(last.stmt.var), <<>>))
              = get_component_map(last.pre, DataAccess(UserName(last.stmt.var), <<>>))

\* `m.a <-- x` was executed on a component bound to an instance of Mul.
BoundComponentAssigned ==
    /\ program = ComponentSignalAssign
    /\ last.stmt = program[3]
    /\ OtherComponentSubstitution
    /\ get_component_signal_id(last.pre, DataAccess(UserName("m"),
                                   <<SubComponent("a")>>)).err = OK

\* ---------------------------------------------------------------- C19

\* The statement last executed is one of the deferred forms.
DeferredExecuted == last.stmt.kind \in DeferredStatements

\* C19: a MultSubstitution, UnderscoreSubstitution, ConstraintEquality,
\* LogCall or Assert returned success, evaluated nothing (no name was
\* generated, no signal id allocated, no operation recorded) and left the
\* circuit and every frame unchanged.
DeferredIsNoOp ==
    DeferredExecuted =>
        /\ err = OK
        /\ ac = last.pre.ac
        /\ stack = last.pre.stack
        /\ counter = last.pre.counter
        /\ next_signal_id = last.pre.next_signal_id
        /\ oplog = last.pre.oplog
        /\ infixLog = last.pre.infixLog

\* A deferred form was executed on an expression whose evaluation would
\* build a gate.
DeferredOnGateExpression ==
    /\ \E k \in DeferredStatements : program = DeferredOnProduct(k)
    /\ last.stmt = program[2]
    /\ LET r == Invoke(last.pre, "process_expression", last.stmt.arg)
       IN  r.st.err = OK /\ Len(r.st.ac.gates) = 1

\* ---------------------------------------------------------------- C20

\* a multiplied by itself n times; the empty product is 1.
RECURSIVE Power(_, _)
Power(a, n) == IF n = 0 THEN 1 ELSE a * Power(a, n - 1)

\* a multiplied by itself n times on 32-bit unsigned values, n >= 1, and
\* whether a product on the way did not fit in 32 bits.
RECURSIVE RepeatedProduct(_, _)
RepeatedProduct(a, n) ==
    IF n = 1 THEN Wrapped(a, FALSE)
    ELSE Do(RepeatedProduct(a, n \div 2), LAMBDA l :
         Do(RepeatedProduct(a, n - n \div 2), LAMBDA r :
         Do(MulU32(l.val, r.val), LAMBDA m :
            Wrapped(m.val, l.overflow \/ r.overflow \/ m.overflow))))

\* C20: Pow on a and 0 gave 1, also for a = 0, and Pow on a and rhs > 0 gave
\* a multiplied by itself rhs times when that fits in 32 bits (for rhs above
\* 32 it fits only for a = 0 and a = 1, and is a), in every recorded
\* evaluation and for every pair of small operands.
PowIsRepeatedProduct ==
    /\ \A k \in VariableEvaluations :
           LET a == LhsValue(infixLog[k])
               rhs == RhsValue(infixLog[k])
           IN  infixLog[k].op = "Pow" =>
                   /\ rhs = 0 => ResValue(infixLog[k]) = 1
                   /\ rhs \in 1..U32Bits /\ ~RepeatedProduct(a, rhs).overflow =>
                          ResValue(infixLog[k]) = RepeatedProduct(a, rhs).val
                   /\ rhs \notin 0..U32Bits /\ a \in {0, 1} =>
                          ResValue(infixLog[k]) = a
    /\ \A a \in Operands \cup {U32Max} : execute_op(a, 0, "Pow") = Result(OK, 1)
    /\ \A a \in Operands, rhs \in 1..MaxOperand :
           execute_op(a, rhs, "Pow") = Result(OK, Power(a, rhs))

\* `var r = 0 ** 0` ran to its end.
ZeroToZeroComputed == OperatorApplied("Pow", 0, 0) /\ ResValue(infixLog[1]) = 1

\* ---------------------------------------------------------------- C21

\* The statements of a list executed one after the other from the first,
\* up to the first error.
RECURSIVE InOrder(_, _, _)
InOrder(st, statements, i) ==
    IF i > Len(statements) \/ st.err # OK THEN st
    ELSE InOrder(Invoke(st, "process_statement", statements[i]), statements, i + 1)

\* RETURN is declared in the current frame of the recorded runtime.
ReturnDeclared(snap) == RETURN_VAR \in DOMAIN TopFrame(snap).items

\* The value of the variable `name` in the current frame of the runtime.
LocalValue(snap, name) == get_variable_value(snap, DataAccess(UserName(name), <<>>))

\* The value a Return statement reads, evaluated in the recorded state.
ReturnOperand(pre, s) ==
    LET return_access == Invoke(pre, "process_expression", s.value)
    IN  [st |-> return_access.st,
         value |-> OkOrEmpty(get_variable_value(return_access.st, return_access.val))]

\* A Return statement was executed in a frame where RETURN is declared, on a
\* value that can be read.
SecondReturn ==
    /\ last.stmt.kind = "Return"
    /\ ReturnDeclared(last.pre)
    /\ ReturnOperand(last.pre, last.stmt).value.err = OK

\* C21: a Return does not end the statement list it is in.  A block executed
\* every one of its statements in order up to the first error, those after a
\* Return included; the body of q wrote n after its Return and the call gave
\* the value n had at the Return; a Return in a frame where RETURN is
\* declared failed with AlreadyDeclared, in the root frame and in the body
\* of p after the statements between the two Returns were executed.
ReturnDoesNotStop ==
    /\ last.stmt.kind = "Block" =>
           Core(State) = Core(InOrder(last.pre, last.stmt.stmts, 1))
    /\ SecondReturn =>
           /\ err = "AlreadyDeclared"
           /\ ac = ReturnOperand(last.pre, last.stmt).st.ac
           /\ get_variable_value(State, DataAccess(RETURN_VAR, <<>>))
                 = get_variable_value(last.pre, DataAccess(RETURN_VAR, <<>>))
    /\ \A arg \in 0..2 :
           (program = FunctionCall("p", arg) /\ last.stmt = program[2]) =>
               /\ err = "AlreadyDeclared"
               /\ LocalValue(State, "t") = Result(OK, Some(arg + 1))
               /\ get_variable_value(State, DataAccess(RETURN_VAR, <<>>))
                     = Result(OK, Some(arg))
    /\ \A k \in DOMAIN callLog :
           callLog[k].id = "q" =>
               /\ LocalValue([stack |-> <<callLog[k].callee>>], "n")
                     = Result(OK, Some(callLog[k].returned[1] + 1))
               /\ get_variable_value(callLog[k].post, callLog[k].ret)
                     = Result(OK, callLog[k].returned)

\* The block `{ return 1; signal output y; y <== x * x; }` ran to its end:
\* after the Return, y was declared, a gate was built and connected to y.
StatementsAfterReturnRan ==
    /\ program = ReturnInBlock
    /\ Finished
    /\ ReturnDeclared(State)
    /\ get_item_data_type(State, UserName("y")) = Result(OK, "Signal")
    /\ Len(ac.gates) = 1 /\ Len(ac.connections) = 1

====
